---- MODULE Spec2Model ----
(***************************************************************************)
(* Static evaluator of the mock preview (preview/parse.ts): the reduction  *)
(* of a route file's default export to a JSON-compatible value.            *)
(*                                                                         *)
(* A source file is represented by the syntax tree the TypeScript parser   *)
(* returns for it.  JavaScript strings are sequences of one-character      *)
(* strings, numbers are exact rationals n/d (d = 0 encodes NaN and the two *)
(* infinities), and every JavaScript value is a record of one shape so     *)
(* that any two values can be compared.                                    *)
(***************************************************************************)
EXTENDS Integers, Sequences, FiniteSets, TLC

(***************************************************************************)
(* Characters and strings                                                  *)
(***************************************************************************)
Digits == <<"0", "1", "2", "3", "4", "5", "6", "7", "8", "9">>

IsDigit(c) == \E i \in 1..10 : Digits[i] = c

DigitValue(c) == (CHOOSE i \in 1..10 : Digits[i] = c) - 1

RECURSIVE NatToString(_)
NatToString(n) ==
    IF n < 10 THEN <<Digits[n + 1]>>
    ELSE NatToString(n \div 10) \o <<Digits[(n % 10) + 1]>>

RECURSIVE DigitsToNat(_)
DigitsToNat(s) ==
    IF s = <<>> THEN 0
    ELSE 10 * DigitsToNat(SubSeq(s, 1, Len(s) - 1)) + DigitValue(s[Len(s)])

RECURSIVE Pow10(_)
Pow10(k) == IF k = 0 THEN 1 ELSE 10 * Pow10(k - 1)

RECURSIVE Join(_, _)
Join(parts, sep) ==
    IF parts = <<>> THEN <<>>
    ELSE IF Len(parts) = 1 THEN parts[1]
    ELSE parts[1] \o sep \o Join(Tail(parts), sep)

RECURSIVE Repeat(_, _)
Repeat(s, k) == IF k <= 0 THEN <<>> ELSE s \o Repeat(s, k - 1)

(***************************************************************************)
(* JavaScript values                                                       *)
(***************************************************************************)
Abs(i) == IF i < 0 THEN -i ELSE i

RECURSIVE Gcd(_, _)
Gcd(a, b) == IF b = 0 THEN a ELSE Gcd(b, a % b)

MkVal(t, n, d, s, xs) == [t |-> t, n |-> n, d |-> d, s |-> s, xs |-> xs]

Undefined == MkVal("undefined", 0, 1, <<>>, <<>>)
Null == MkVal("null", 0, 1, <<>>, <<>>)
Bool(b) == MkVal("boolean", IF b THEN 1 ELSE 0, 1, <<>>, <<>>)
Str(s) == MkVal("string", 0, 1, s, <<>>)
Arr(xs) == MkVal("array", 0, 1, <<>>, xs)
Obj(props) == MkVal("object", 0, 1, <<>>, props)

\* The rational n/d in lowest terms; -0 is not told apart from 0, which
\* no operation of the evaluator can observe.
Rat(n, d) ==
    LET g == Gcd(Abs(n), d)
    IN  MkVal("number", n \div g, d \div g, <<>>, <<>>)
Num(n) == Rat(n, 1)
NaN == MkVal("number", 0, 0, <<>>, <<>>)
Infinity == MkVal("number", 1, 0, <<>>, <<>>)
NegInfinity == MkVal("number", -1, 0, <<>>, <<>>)

TypeOf(v) ==
    CASE v.t = "null" -> "object"
      [] v.t = "array" -> "object"
      [] OTHER -> v.t

IsNumber(v) == v.t = "number"
IsNaN(v) == v.t = "number" /\ v.d = 0 /\ v.n = 0
\* Number.isFinite
IsFinite(v) == v.t = "number" /\ v.d # 0
IsZero(v) == v.t = "number" /\ v.d # 0 /\ v.n = 0
IsObjectLike(v) == v.t \in {"array", "object"}

Sign(v) == IF v.n > 0 THEN 1 ELSE IF v.n < 0 THEN -1 ELSE 0

RECURSIVE FracDigits(_, _, _)
FracDigits(r, d, k) ==
    IF r = 0 \/ k = 0 THEN <<>>
    ELSE <<Digits[((r * 10) \div d) + 1]>> \o FracDigits((r * 10) % d, d, k - 1)

\* Number.prototype.toString for the values that n/d can take here: the
\* decimal expansion is exact when d has no prime factor but 2 and 5.
NumberToString(v) ==
    IF v.d = 0
    THEN CASE v.n = 0 -> <<"N", "a", "N">>
           [] v.n > 0 -> <<"I", "n", "f", "i", "n", "i", "t", "y">>
           [] OTHER -> <<"-", "I", "n", "f", "i", "n", "i", "t", "y">>
    ELSE LET a == Abs(v.n)
         IN  (IF v.n < 0 THEN <<"-">> ELSE <<>>)
             \o NatToString(a \div v.d)
             \o (IF a % v.d = 0 THEN <<>>
                 ELSE <<".">> \o FracDigits(a % v.d, v.d, 20))

\* String(value)
RECURSIVE JsString(_)
JsString(v) ==
    CASE v.t = "undefined" -> <<"u", "n", "d", "e", "f", "i", "n", "e", "d">>
      [] v.t = "null" -> <<"n", "u", "l", "l">>
      [] v.t = "boolean" ->
           IF v.n = 1 THEN <<"t", "r", "u", "e">> ELSE <<"f", "a", "l", "s", "e">>
      [] v.t = "number" -> NumberToString(v)
      [] v.t = "string" -> v.s
      [] v.t = "array" ->
           Join([i \in 1..Len(v.xs) |->
                    IF v.xs[i].t \in {"undefined", "null"} THEN <<>>
                    ELSE JsString(v.xs[i])], <<",">>)
      [] OTHER -> <<"[", "o", "b", "j", "e", "c", "t", " ",
                    "O", "b", "j", "e", "c", "t", "]">>

\* The StringToNumber grammar: an optional sign, then Infinity or decimal
\* digits with an optional fraction.  Exponents and radix prefixes cannot
\* be formed from the characters of the sources considered.
StringToNumber(s) ==
    LET signed == Len(s) > 0 /\ s[1] \in {"+", "-"}
        neg == Len(s) > 0 /\ s[1] = "-"
        body == IF signed THEN Tail(s) ELSE s
        dots == {i \in 1..Len(body) : body[i] = "."}
        dot == IF dots = {} THEN Len(body) + 1 ELSE CHOOSE i \in dots : TRUE
        int == SubSeq(body, 1, dot - 1)
        frac == SubSeq(body, dot + 1, Len(body))
        m == DigitsToNat(int \o frac)
    IN  IF s = <<>> THEN Num(0)
        ELSE IF body = <<"I", "n", "f", "i", "n", "i", "t", "y">>
        THEN IF neg THEN NegInfinity ELSE Infinity
        ELSE IF /\ Cardinality(dots) <= 1
                /\ Len(int) + Len(frac) >= 1
                /\ \A i \in 1..Len(body) : i = dot \/ IsDigit(body[i])
        THEN Rat(IF neg THEN -m ELSE m, Pow10(Len(frac)))
        ELSE NaN

\* Number(value)
JsNumber(v) ==
    CASE v.t = "undefined" -> NaN
      [] v.t = "null" -> Num(0)
      [] v.t = "boolean" -> Num(v.n)
      [] v.t = "number" -> v
      [] v.t = "string" -> StringToNumber(v.s)
      [] v.t = "array" -> StringToNumber(JsString(v))
      [] OTHER -> NaN

\* ToBoolean
Truthy(v) ==
    CASE v.t \in {"undefined", "null"} -> FALSE
      [] v.t = "boolean" -> v.n = 1
      [] v.t = "number" -> ~(v.d = 0 /\ v.n = 0) /\ ~IsZero(v)
      [] v.t = "string" -> v.s # <<>>
      [] OTHER -> TRUE

(***************************************************************************)
(* Number arithmetic (IEEE 754 on the values representable here)           *)
(***************************************************************************)
Neg(a) == MkVal("number", -a.n, a.d, <<>>, <<>>)

NumAdd(a, b) ==
    IF IsNaN(a) \/ IsNaN(b) THEN NaN
    ELSE IF a.d = 0 /\ b.d = 0 THEN IF a.n = b.n THEN a ELSE NaN
    ELSE IF a.d = 0 THEN a
    ELSE IF b.d = 0 THEN b
    ELSE Rat(a.n * b.d + b.n * a.d, a.d * b.d)

NumSub(a, b) == NumAdd(a, Neg(b))

NumMul(a, b) ==
    IF IsNaN(a) \/ IsNaN(b) THEN NaN
    ELSE IF a.d = 0 \/ b.d = 0
    THEN IF Sign(a) * Sign(b) = 0 THEN NaN
         ELSE IF Sign(a) * Sign(b) > 0 THEN Infinity ELSE NegInfinity
    ELSE Rat(a.n * b.n, a.d * b.d)

NumDiv(a, b) ==
    IF IsNaN(a) \/ IsNaN(b) THEN NaN
    ELSE IF a.d = 0 /\ b.d = 0 THEN NaN
    ELSE IF a.d = 0
    THEN IF Sign(a) * (IF Sign(b) < 0 THEN -1 ELSE 1) > 0 THEN Infinity ELSE NegInfinity
    ELSE IF b.d = 0 THEN Num(0)
    ELSE IF b.n = 0
    THEN IF a.n = 0 THEN NaN ELSE IF a.n > 0 THEN Infinity ELSE NegInfinity
    ELSE Rat((IF b.n < 0 THEN -1 ELSE 1) * a.n * b.d, a.d * Abs(b.n))

\* The remainder has the sign of the dividend; x % 0 and Infinity % x are NaN.
NumRem(a, b) ==
    IF IsNaN(a) \/ IsNaN(b) THEN NaN
    ELSE IF a.d = 0 THEN NaN
    ELSE IF b.d = 0 THEN a
    ELSE IF b.n = 0 THEN NaN
    ELSE LET x == Abs(a.n) * b.d
             y == Abs(b.n) * a.d
             r == x % y
         IN  Rat((IF a.n < 0 THEN -1 ELSE 1) * r, a.d * b.d)

NumLess(a, b) ==
    IF IsNaN(a) \/ IsNaN(b) THEN FALSE
    ELSE IF a.d = 0 /\ b.d = 0 THEN a.n < b.n
    ELSE IF a.d = 0 THEN a.n < 0
    ELSE IF b.d = 0 THEN b.n > 0
    ELSE a.n * b.d < b.n * a.d

NumEq(a, b) == ~IsNaN(a) /\ ~IsNaN(b) /\ a = b

\* left === right.  Arrays and objects are compared by identity, and every
\* evaluation of an array or object literal creates a new one.
StrictEq(a, b) ==
    /\ a.t = b.t
    /\ CASE a.t = "number" -> NumEq(a, b)
         [] a.t \in {"array", "object"} -> FALSE
         [] OTHER -> a = b

\* left == right
RECURSIVE LooseEq(_, _)
LooseEq(a, b) ==
    IF a.t = b.t THEN StrictEq(a, b)
    ELSE IF a.t \in {"undefined", "null"} /\ b.t \in {"undefined", "null"} THEN TRUE
    ELSE IF a.t \in {"undefined", "null"} \/ b.t \in {"undefined", "null"} THEN FALSE
    ELSE IF a.t = "number" /\ b.t = "string" THEN NumEq(a, JsNumber(b))
    ELSE IF a.t = "string" /\ b.t = "number" THEN NumEq(JsNumber(a), b)
    ELSE IF a.t = "boolean" THEN LooseEq(JsNumber(a), b)
    ELSE IF b.t = "boolean" THEN LooseEq(a, JsNumber(b))
    ELSE IF IsObjectLike(a) /\ ~IsObjectLike(b) THEN LooseEq(Str(JsString(a)), b)
    ELSE IF IsObjectLike(b) /\ ~IsObjectLike(a) THEN LooseEq(a, Str(JsString(b)))
    ELSE FALSE

(***************************************************************************)
(* JSON.stringify(value, null, indent); indent = 0 is the compact form.    *)
(* A property whose value is undefined is left out, an undefined array     *)
(* element and a non-finite number are written as null.                    *)
(***************************************************************************)
RECURSIVE Escape(_)
Escape(s) ==
    IF s = <<>> THEN <<>>
    ELSE (IF s[1] \in {"\"", "\\"} THEN <<"\\", s[1]>> ELSE <<s[1]>>) \o Escape(Tail(s))

Quote(s) == <<"\"">> \o Escape(s) \o <<"\"">>

RECURSIVE JSONStringify(_, _, _)
JSONStringify(v, indent, level) ==
    LET nl(k) == IF indent = 0 THEN <<>> ELSE <<"\n">> \o Repeat(<<" ">>, indent * k)
        kept == SelectSeq(v.xs, LAMBDA p : p.v.t # "undefined")
    IN  CASE v.t \in {"undefined", "null"} -> <<"n", "u", "l", "l">>
          [] v.t = "boolean" -> JsString(v)
          [] v.t = "number" -> IF IsFinite(v) THEN NumberToString(v) ELSE <<"n", "u", "l", "l">>
          [] v.t = "string" -> Quote(v.s)
          [] v.t = "array" ->
               IF v.xs = <<>> THEN <<"[", "]">>
               ELSE <<"[">> \o nl(level + 1)
                    \o Join([i \in 1..Len(v.xs) |-> JSONStringify(v.xs[i], indent, level + 1)],
                            <<",">> \o nl(level + 1))
                    \o nl(level) \o <<"]">>
          [] OTHER ->
               IF kept = <<>> THEN <<"{", "}">>
               ELSE <<"{">> \o nl(level + 1)
                    \o Join([i \in 1..Len(kept) |->
                                Quote(kept[i].k) \o <<":">>
                                \o (IF indent = 0 THEN <<>> ELSE <<" ">>)
                                \o JSONStringify(kept[i].v, indent, level + 1)],
                            <<",">> \o nl(level + 1))
                    \o nl(level) \o <<"}">>

\* result[key] = value on a plain object: an existing key keeps its place;
\* a new canonical array index goes before the string keys, in ascending
\* order, any other new key goes last.
IsArrayIndex(k) ==
    /\ k # <<>>
    /\ \A i \in 1..Len(k) : IsDigit(k[i])
    /\ (Len(k) = 1 \/ k[1] # "0")

ObjSet(props, k, v) ==
    IF \E i \in 1..Len(props) : props[i].k = k
    THEN [i \in 1..Len(props) |-> IF props[i].k = k THEN [k |-> k, v |-> v] ELSE props[i]]
    ELSE IF IsArrayIndex(k)
    THEN LET before == {i \in 1..Len(props) :
                           IsArrayIndex(props[i].k) /\ DigitsToNat(props[i].k) < DigitsToNat(k)}
             n == Cardinality(before)
         IN  SubSeq(props, 1, n) \o <<[k |-> k, v |-> v]>> \o SubSeq(props, n + 1, Len(props))
    ELSE Append(props, [k |-> k, v |-> v])

HasKey(obj, k) == \E i \in 1..Len(obj.xs) : obj.xs[i].k = k
Get(obj, k) == obj.xs[CHOOSE i \in 1..Len(obj.xs) : obj.xs[i].k = k].v

(***************************************************************************)
(* Syntax tree (the nodes the TypeScript parser supplies)                  *)
(***************************************************************************)
NoNode == [kind |-> "None"]

StringLiteral(s) == [kind |-> "StringLiteral", text |-> s]
NoSubstitutionTemplateLiteral(s) == [kind |-> "NoSubstitutionTemplateLiteral", text |-> s]
NumericLiteral(s) == [kind |-> "NumericLiteral", text |-> s]
TrueKeyword == [kind |-> "TrueKeyword"]
FalseKeyword == [kind |-> "FalseKeyword"]
NullKeyword == [kind |-> "NullKeyword"]
Identifier(s) == [kind |-> "Identifier", text |-> s]
TemplateSpan(e, lit) == [expression |-> e, literal |-> lit]
TemplateExpression(head, spans) ==
    [kind |-> "TemplateExpression", head |-> head, templateSpans |-> spans]
PrefixUnaryExpression(op, e) ==
    [kind |-> "PrefixUnaryExpression", operator |-> op, operand |-> e]
BinaryExpression(l, op, r) ==
    [kind |-> "BinaryExpression", left |-> l, operatorToken |-> op, right |-> r]
ConditionalExpression(c, a, b) ==
    [kind |-> "ConditionalExpression", condition |-> c, whenTrue |-> a, whenFalse |-> b]
ArrayLiteralExpression(els) == [kind |-> "ArrayLiteralExpression", elements |-> els]
ObjectLiteralExpression(props) == [kind |-> "ObjectLiteralExpression", properties |-> props]
PropertyAssignment(name, init) ==
    [kind |-> "PropertyAssignment", name |-> name, initializer |-> init]
ShorthandPropertyAssignment(s) == [kind |-> "ShorthandPropertyAssignment", name |-> Identifier(s)]
MethodDeclaration(name, body) == [kind |-> "MethodDeclaration", name |-> name, body |-> body]
ComputedPropertyName == [kind |-> "ComputedPropertyName"]
ParenthesizedExpression(e) == [kind |-> "ParenthesizedExpression", expression |-> e]
AsExpression(e) == [kind |-> "AsExpression", expression |-> e]
NonNullExpression(e) == [kind |-> "NonNullExpression", expression |-> e]
PropertyAccessExpression(e, name) ==
    [kind |-> "PropertyAccessExpression", expression |-> e, name |-> Identifier(name)]
CallExpression(callee, args) ==
    [kind |-> "CallExpression", expression |-> callee, arguments |-> args]
\* a parameter is its name node: an identifier or a binding pattern
ObjectBindingPattern == [kind |-> "ObjectBindingPattern"]
ArrowFunction(params, body) == [kind |-> "ArrowFunction", parameters |-> params, body |-> body]
FunctionExpression(params, body) ==
    [kind |-> "FunctionExpression", parameters |-> params, body |-> body]
\* any other expression: new, await, element access, ...
OtherExpression == [kind |-> "OtherExpression"]

Block(stmts) == [kind |-> "Block", statements |-> stmts]
VariableDeclaration(name, init) == [name |-> name, initializer |-> init]
VariableStatement(isConst, decls) ==
    [kind |-> "VariableStatement", const |-> isConst, declarations |-> decls]
ReturnStatement(e) == [kind |-> "ReturnStatement", expression |-> e]
IfStatement(c, then) == [kind |-> "IfStatement", expression |-> c, thenStatement |-> then]
ExpressionStatement(e) == [kind |-> "ExpressionStatement", expression |-> e]
FunctionDeclaration(body) == [kind |-> "FunctionDeclaration", body |-> body]

IsFunctionNode(n) == n.kind \in {"ArrowFunction", "FunctionExpression"}

\* node.forEachChild: the children that can hold statements or expressions,
\* in source order
Children(n) ==
    CASE n.kind = "Block" -> n.statements
      [] n.kind = "VariableStatement" ->
           LET inits == [i \in 1..Len(n.declarations) |-> n.declarations[i].initializer]
           IN  SelectSeq(inits, LAMBDA e : e # NoNode)
      [] n.kind = "ReturnStatement" -> IF n.expression = NoNode THEN <<>> ELSE <<n.expression>>
      [] n.kind = "IfStatement" -> <<n.expression, n.thenStatement>>
      [] n.kind = "ExpressionStatement" -> <<n.expression>>
      [] n.kind \in {"FunctionDeclaration", "MethodDeclaration"} -> <<n.body>>
      [] n.kind \in {"ArrowFunction", "FunctionExpression"} -> <<n.body>>
      [] n.kind = "TemplateExpression" ->
           [i \in 1..Len(n.templateSpans) |-> n.templateSpans[i].expression]
      [] n.kind = "PrefixUnaryExpression" -> <<n.operand>>
      [] n.kind = "BinaryExpression" -> <<n.left, n.right>>
      [] n.kind = "ConditionalExpression" -> <<n.condition, n.whenTrue, n.whenFalse>>
      [] n.kind = "ArrayLiteralExpression" -> n.elements
      [] n.kind = "ObjectLiteralExpression" -> n.properties
      [] n.kind = "PropertyAssignment" -> <<n.initializer>>
      [] n.kind \in {"ParenthesizedExpression", "AsExpression", "NonNullExpression",
                     "PropertyAccessExpression"} -> <<n.expression>>
      [] n.kind = "CallExpression" -> <<n.expression>> \o n.arguments
      [] OTHER -> <<>>

(***************************************************************************)
(* Environment: Map<string, EnvValue>                                      *)
(***************************************************************************)
ExprBinding(node) == [type |-> "expr", node |-> node, value |-> Undefined]
ValueBinding(v) == [type |-> "value", node |-> NoNode, value |-> v]
NoBinding == [type |-> "none", node |-> NoNode, value |-> Undefined]

EmptyEnv == [k \in {} |-> NoBinding]
\* env.get(name)
EnvGet(env, name) == IF name \in DOMAIN env THEN env[name] ELSE NoBinding
\* env.set(name, binding)
EnvSet(env, name, b) == [k \in DOMAIN env \cup {name} |-> IF k = name THEN b ELSE env[k]]

(***************************************************************************)
(* Outcome of a call: the returned value, or the exception it raised.      *)
(* The absent result (undefined) is the value Undefined.                   *)
(***************************************************************************)
R(v) == [thrown |-> "", val |-> v]
Throw(e) == [thrown |-> e, val |-> Undefined]
Thrown(o) == o.thrown # ""

\* const v = <call o>; F(v): an exception raised by the call ends the caller.
Then(o, F(_)) == IF Thrown(o) THEN o ELSE F(o.val)

\* const v = <call o>; if (v !== undefined) return v; and `rest` otherwise.
OrElse(o, rest) == IF Thrown(o) \/ o.val # Undefined THEN o ELSE rest

\* Depth of nested calls at which the engine raises RangeError (Maximum call
\* stack size exceeded); deeper than any nesting of the sources considered.
StackLimit == 24

\* evalTemplateExpression(node, env) refers to `ts`, which is neither one of
\* its parameters nor declared in the module.
tsInScope == FALSE

Marker(name) == Str(<<"<">> \o name \o <<">">>)
ExprMarker == Str(<<"<", "e", "x", "p", "r", ">">>)
FunctionMarker == Str(<<"<", "f", "u", "n", "c", "t", "i", "o", "n", ">">>)

s_defineHandler == <<"d", "e", "f", "i", "n", "e", "H", "a", "n", "d", "l", "e", "r">>
s_handler == <<"h", "a", "n", "d", "l", "e", "r">>
s_length == <<"l", "e", "n", "g", "t", "h">>
s_Array == <<"A", "r", "r", "a", "y">>
s_from == <<"f", "r", "o", "m">>
s_faker == <<"f", "a", "k", "e", "r">>
s_string == <<"s", "t", "r", "i", "n", "g">>
s_numeric == <<"n", "u", "m", "e", "r", "i", "c">>
s_commerce == <<"c", "o", "m", "m", "e", "r", "c", "e">>
s_productName == <<"p", "r", "o", "d", "u", "c", "t", "N", "a", "m", "e">>
s_SampleProduct == <<"S", "a", "m", "p", "l", "e", " ", "P", "r", "o", "d", "u", "c", "t">>

\* The text of the name, or the empty string for null: both make `!key` true
\* and neither equals a key that is looked for.
getPropName(name) ==
    IF name.kind \in {"Identifier", "StringLiteral", "NumericLiteral"} THEN name.text ELSE <<>>

RECURSIVE collectReturnExpressions(_)
collectReturnExpressions(current) ==
    IF current.kind = "ReturnStatement" /\ current.expression # NoNode
    THEN <<current.expression>>
    ELSE IF current.kind \in {"FunctionExpression", "ArrowFunction",
                              "FunctionDeclaration", "MethodDeclaration"}
    THEN <<>>
    ELSE LET kids == Children(current)
         IN  Join([i \in 1..Len(kids) |-> collectReturnExpressions(kids[i])], <<>>)

\* The const declarations the walk of collectConstExpressionsInNode meets,
\* in the order in which it sets them.
RECURSIVE ConstDeclarationsInNode(_, _)
ConstDeclarationsInNode(current, node) ==
    IF current # node /\ current.kind \in {"ArrowFunction", "FunctionExpression",
                                           "FunctionDeclaration"}
    THEN <<>>
    ELSE LET own == IF current.kind = "VariableStatement" /\ current.const
                    THEN SelectSeq(current.declarations,
                                   LAMBDA d : d.name.kind = "Identifier" /\ d.initializer # NoNode)
                    ELSE <<>>
             kids == Children(current)
         IN  own \o Join([i \in 1..Len(kids) |-> ConstDeclarationsInNode(kids[i], node)], <<>>)

RECURSIVE SetAll(_, _)
SetAll(env, decls) ==
    IF decls = <<>> THEN env
    ELSE SetAll(EnvSet(env, decls[1].name.text, ExprBinding(decls[1].initializer)), Tail(decls))

collectConstExpressionsInNode(node, env) == SetAll(env, ConstDeclarationsInNode(node, node))

\* The top-level const declarations of the source file.
collectConstExpressions(source) ==
    LET declsOf(stmt) ==
            IF stmt.kind = "VariableStatement" /\ stmt.const
            THEN SelectSeq(stmt.declarations,
                           LAMBDA d : d.name.kind = "Identifier" /\ d.initializer # NoNode)
            ELSE <<>>
    IN  SetAll(EmptyEnv, Join([i \in 1..Len(source.statements) |-> declsOf(source.statements[i])], <<>>))

\* const env = baseEnv: the function scope is the caller's own map
SameMap(baseEnv) == [entries |-> baseEnv, shared |-> TRUE]

\* new Map(baseEnv): a map of its own with the entries of baseEnv; `shared`
\* tells whether a later set on it is a set on baseEnv too.
NewMap(baseEnv) == [entries |-> baseEnv, shared |-> FALSE]

RECURSIVE BindParameters(_, _, _, _)
BindParameters(env, parameters, paramValues, i) ==
    IF i > Len(parameters) THEN env
    ELSE IF parameters[i].kind # "Identifier" \/ i > Len(paramValues)
    THEN BindParameters(env, parameters, paramValues, i + 1)
    ELSE BindParameters(EnvSet(env, parameters[i].text, ValueBinding(paramValues[i])),
                        parameters, paramValues, i + 1)

\* env: the function-scope environment; baseEnv: the caller's environment
\* when createFunctionEnv returns.  No paramValues is the empty sequence.
createFunctionEnv(fn, baseEnv, paramValues) ==
    LET map == NewMap(baseEnv)
        withParams == BindParameters(map.entries, fn.parameters, paramValues, 1)
        env == IF fn.body.kind = "Block"
               THEN collectConstExpressionsInNode(fn.body, withParams)
               ELSE withParams
    IN  [env |-> env, baseEnv |-> IF map.shared THEN env ELSE baseEnv]

RECURSIVE getPropertyAccessPath(_)
\* the names from the root identifier on, or <<>> for null
getPropertyAccessPath(node) ==
    IF node.kind = "PropertyAccessExpression"
    THEN LET rest == getPropertyAccessPath(node.expression)
         IN  IF rest = <<>> THEN <<>> ELSE Append(rest, node.name.text)
    ELSE IF node.kind = "Identifier" THEN <<node.text>>
    ELSE <<>>

makeNumericString(length) ==
    Join([i \in 1..length |-> <<Digits[((i - 1) % 10) + 1]>>], <<>>)

isArrayFromCall(node) ==
    LET callee == node.expression
    IN  /\ callee.kind = "PropertyAccessExpression"
        /\ callee.name.text = s_from
        /\ callee.expression.kind = "Identifier"
        /\ callee.expression.text = s_Array

isDefineHandlerCallee(callee) ==
    \/ callee.kind = "Identifier" /\ callee.text = s_defineHandler
    \/ callee.kind = "PropertyAccessExpression" /\ callee.name.text = s_defineHandler

\* The initializer of the property `key`, or NoNode.
resolveObjectProperty(node, key, env) ==
    LET hit(prop) ==
            \/ prop.kind = "PropertyAssignment" /\ getPropName(prop.name) = key
            \/ /\ prop.kind = "ShorthandPropertyAssignment"
               /\ prop.name.text = key
               /\ EnvGet(env, prop.name.text).type = "expr"
        hits == {i \in 1..Len(node.properties) : hit(node.properties[i])}
        first == node.properties[CHOOSE i \in hits : \A j \in hits : i <= j]
    IN  IF hits = {} THEN NoNode
        ELSE IF first.kind = "PropertyAssignment" THEN first.initializer
        ELSE EnvGet(env, first.name.text).node

\* [thrown, node]: the function expression `node` stands for, or NoNode.
RECURSIVE resolveFunctionExpression(_, _, _)
resolveFunctionExpression(node, env, depth) ==
    IF depth > StackLimit THEN [thrown |-> "RangeError", node |-> NoNode]
    ELSE IF IsFunctionNode(node) THEN [thrown |-> "", node |-> node]
    ELSE IF node.kind = "Identifier" /\ EnvGet(env, node.text).type = "expr"
    THEN resolveFunctionExpression(EnvGet(env, node.text).node, env, depth + 1)
    ELSE [thrown |-> "", node |-> NoNode]

(***************************************************************************)
(* The evaluator.  `depth` counts the nested calls; a call beyond          *)
(* StackLimit raises RangeError, and an exception raised by a call ends    *)
(* every caller, none of which catches it.                                 *)
(***************************************************************************)
Arg(node, i) == IF Len(node.arguments) >= i THEN node.arguments[i] ELSE NoNode

RECURSIVE evalValue(_, _, _)
RECURSIVE evalObjectLiteral(_, _, _)
RECURSIVE findReturnedObjectIn(_, _, _)
RECURSIVE extractHandlerReturnArg(_, _, _)

findReturnedObject(fn, env, paramValues, depth) ==
    findReturnedObjectIn(fn, createFunctionEnv(fn, env, paramValues).env, depth)

RECURSIVE EvalElements(_, _, _, _, _)
EvalElements(elements, env, depth, i, acc) ==
    IF i > Len(elements) THEN R(Arr(acc))
    ELSE LET push(v) == EvalElements(elements, env, depth, i + 1, Append(acc, v))
         IN  Then(evalValue(elements[i], env, depth + 1), push)

\* a shorthand property that looks up expr-kind bindings only
RECURSIVE EvalPropertiesExprOnly(_, _, _, _, _)
EvalPropertiesExprOnly(properties, env, depth, i, result) ==
    IF i > Len(properties) THEN R(Obj(result))
    ELSE LET prop == properties[i]
             key == IF prop.kind = "PropertyAssignment" THEN getPropName(prop.name)
                    ELSE prop.name.text
             resolved == EnvGet(env, key)
             set(v) == EvalPropertiesExprOnly(properties, env, depth, i + 1,
                                              ObjSet(result, key, v))
         IN  IF prop.kind = "PropertyAssignment" /\ key # <<>>
             THEN Then(evalValue(prop.initializer, env, depth + 1), set)
             ELSE IF prop.kind = "ShorthandPropertyAssignment" /\ resolved.type = "expr"
             THEN Then(evalValue(resolved.node, env, depth + 1), set)
             ELSE IF prop.kind = "ShorthandPropertyAssignment"
             THEN set(Marker(key))
             ELSE EvalPropertiesExprOnly(properties, env, depth, i + 1, result)

RECURSIVE EvalProperties(_, _, _, _, _)
EvalProperties(properties, env, depth, i, result) ==
    IF i > Len(properties) THEN R(Obj(result))
    ELSE LET prop == properties[i]
             key == IF prop.kind = "PropertyAssignment" THEN getPropName(prop.name)
                    ELSE prop.name.text
             resolved == EnvGet(env, key)
             set(v) == EvalProperties(properties, env, depth, i + 1, ObjSet(result, key, v))
         IN  IF prop.kind = "PropertyAssignment" /\ key # <<>>
             THEN Then(evalValue(prop.initializer, env, depth + 1), set)
             ELSE IF prop.kind = "ShorthandPropertyAssignment" /\ resolved.type = "value"
             THEN set(resolved.value)
             ELSE IF prop.kind = "ShorthandPropertyAssignment" /\ resolved.type = "expr"
             THEN Then(evalValue(resolved.node, env, depth + 1), set)
             ELSE IF prop.kind = "ShorthandPropertyAssignment"
             THEN set(Marker(key))
             ELSE EvalProperties(properties, env, depth, i + 1, result)

evalObjectLiteral(node, env, depth) ==
    IF depth > StackLimit THEN Throw("RangeError")
    ELSE EvalProperties(node.properties, env, depth, 1, <<>>)

RECURSIVE EvalSpans(_, _, _, _, _)
EvalSpans(spans, env, depth, i, result) ==
    IF i > Len(spans) THEN R(Str(result))
    ELSE LET value == IF tsInScope THEN evalValue(spans[i].expression, env, depth + 1)
                      ELSE Throw("ReferenceError")
             piece == IF value.val = ExprMarker THEN ExprMarker.s
                      ELSE IF value.val.t \in {"null", "undefined"} THEN JsString(value.val)
                      ELSE IF TypeOf(value.val) = "object" THEN JSONStringify(value.val, 0, 0)
                      ELSE JsString(value.val)
         IN  IF Thrown(value) THEN value
             ELSE EvalSpans(spans, env, depth, i + 1, result \o piece \o spans[i].literal)

evalTemplateExpression(node, env, depth) ==
    EvalSpans(node.templateSpans, env, depth, 1, node.head)

evalPrefixUnary(node, env, depth) ==
    LET o == evalValue(node.operand, env, depth + 1)
        value == o.val
    IN  IF Thrown(o) THEN o
        ELSE IF value = ExprMarker THEN R(ExprMarker)
        ELSE CASE node.operator = "!" -> R(Bool(~Truthy(value)))
               [] node.operator = "+" -> R(IF IsNumber(value) THEN value ELSE JsNumber(value))
               [] node.operator = "-" ->
                    IF IsNumber(value) THEN R(Neg(value))
                    ELSE IF IsNaN(JsNumber(value)) THEN R(ExprMarker)
                    ELSE R(Neg(JsNumber(value)))
               [] OTHER -> R(ExprMarker)

evalBinaryExpression(node, env, depth) ==
    LET l == evalValue(node.left, env, depth + 1)
        r == evalValue(node.right, env, depth + 1)
        left == l.val
        right == r.val
        op == node.operatorToken
        numbers == IsNumber(left) /\ IsNumber(right)
    IN  IF Thrown(l) THEN l
        ELSE IF Thrown(r) THEN r
        ELSE IF left = ExprMarker \/ right = ExprMarker THEN R(ExprMarker)
        ELSE CASE op = "+" ->
                    IF left.t = "string" \/ right.t = "string"
                    THEN R(Str(JsString(left) \o JsString(right)))
                    ELSE IF numbers THEN R(NumAdd(left, right))
                    ELSE R(ExprMarker)
               [] op = "-" -> IF numbers THEN R(NumSub(left, right)) ELSE R(ExprMarker)
               [] op = "*" -> IF numbers THEN R(NumMul(left, right)) ELSE R(ExprMarker)
               [] op = "/" ->
                    IF numbers
                    THEN IF IsZero(right) THEN R(ExprMarker) ELSE R(NumDiv(left, right))
                    ELSE R(ExprMarker)
               [] op = "%" -> IF numbers THEN R(NumRem(left, right)) ELSE R(ExprMarker)
               [] op = "===" -> R(Bool(StrictEq(left, right)))
               [] op = "!==" -> R(Bool(~StrictEq(left, right)))
               [] op = "==" -> R(Bool(LooseEq(left, right)))
               [] op = "!=" -> R(Bool(~LooseEq(left, right)))
               [] op = ">" -> IF numbers THEN R(Bool(NumLess(right, left))) ELSE R(ExprMarker)
               [] op = ">=" ->
                    IF numbers THEN R(Bool(NumLess(right, left) \/ NumEq(left, right)))
                    ELSE R(ExprMarker)
               [] op = "<" -> IF numbers THEN R(Bool(NumLess(left, right))) ELSE R(ExprMarker)
               [] op = "<=" ->
                    IF numbers THEN R(Bool(NumLess(left, right) \/ NumEq(left, right)))
                    ELSE R(ExprMarker)
               [] op = "&&" -> IF Truthy(left) THEN R(right) ELSE R(left)
               [] op = "||" -> IF Truthy(left) THEN R(left) ELSE R(right)
               [] OTHER -> R(ExprMarker)

evalConditionalExpression(node, env, depth) ==
    LET c == evalValue(node.condition, env, depth + 1)
    IN  IF Thrown(c) THEN c
        ELSE IF c.val = ExprMarker THEN R(ExprMarker)
        ELSE IF Truthy(c.val) THEN evalValue(node.whenTrue, env, depth + 1)
        ELSE evalValue(node.whenFalse, env, depth + 1)

extractDefineHandlerReturn(expr, env, depth) ==
    IF isDefineHandlerCallee(expr.expression)
    THEN extractHandlerReturnArg(expr, env, depth + 1)
    ELSE R(Undefined)

extractHandlerReturnArg(expr, env, depth) ==
    LET arg == Arg(expr, 1)
        handlerExpr == resolveObjectProperty(arg, s_handler, env)
        handlerFn == resolveFunctionExpression(handlerExpr, env, depth + 1)
    IN  IF arg = NoNode THEN R(Undefined)
        ELSE IF IsFunctionNode(arg)
        THEN OrElse(findReturnedObject(arg, env, <<>>, depth + 1), R(FunctionMarker))
        ELSE IF arg.kind = "ObjectLiteralExpression" /\ handlerExpr # NoNode
        THEN IF handlerFn.thrown # "" THEN Throw(handlerFn.thrown)
             ELSE IF handlerFn.node # NoNode
             THEN OrElse(findReturnedObject(handlerFn.node, env, <<>>, depth + 1),
                         R(FunctionMarker))
             ELSE R(Undefined)
        ELSE R(Undefined)

\* The length of the first argument of Array.from, or undefined.
RECURSIVE LengthProperty(_, _, _, _)
LengthProperty(properties, env, depth, i) ==
    IF i > Len(properties) THEN R(Undefined)
    ELSE LET prop == properties[i]
             value == evalValue(prop.initializer, env, depth + 1)
         IN  IF prop.kind # "PropertyAssignment" \/ getPropName(prop.name) # s_length
             THEN LengthProperty(properties, env, depth, i + 1)
             ELSE IF Thrown(value) THEN value
             ELSE IF IsFinite(value.val) THEN value
             ELSE LengthProperty(properties, env, depth, i + 1)

extractArrayFromLength(node, env, depth) ==
    LET fromProperty == IF node.kind = "ObjectLiteralExpression"
                        THEN LengthProperty(node.properties, env, depth, 1)
                        ELSE R(Undefined)
        value == evalValue(node, env, depth + 1)
    IN  IF node = NoNode THEN R(Undefined)
        ELSE IF node.kind = "ArrayLiteralExpression" THEN R(Num(Len(node.elements)))
        ELSE IF Thrown(fromProperty) \/ fromProperty.val # Undefined THEN fromProperty
        ELSE IF Thrown(value) THEN value
        ELSE IF IsFinite(value.val) THEN value
        ELSE R(Undefined)

\* the index handed to the producer as its first parameter
RECURSIVE ArrayFromLoopIndexFirst(_, _, _, _, _, _)
ArrayFromLoopIndexFirst(mapper, env, depth, length, index, result) ==
    IF ~NumLess(Num(index), length) THEN R(Arr(result))
    ELSE IF mapper # NoNode /\ IsFunctionNode(mapper)
    THEN LET scope == createFunctionEnv(mapper, env, <<Num(index)>>)
             returned == findReturnedObjectIn(mapper, scope.env, depth + 1)
         IN  IF Thrown(returned) THEN returned
             ELSE ArrayFromLoopIndexFirst(mapper, scope.baseEnv, depth, length, index + 1,
                                          Append(result, IF returned.val = Undefined THEN Null
                                                         ELSE returned.val))
    ELSE ArrayFromLoopIndexFirst(mapper, env, depth, length, index + 1, Append(result, Null))

\* for (let index = 0; index < length; index++): `env` is the environment
\* object of the caller, as the preceding iterations have left it.
RECURSIVE ArrayFromLoop(_, _, _, _, _, _)
ArrayFromLoop(mapper, env, depth, length, index, result) ==
    IF ~NumLess(Num(index), length) THEN R(Arr(result))
    ELSE IF mapper # NoNode /\ IsFunctionNode(mapper)
    THEN LET scope == createFunctionEnv(mapper, env, <<Undefined, Num(index)>>)
             returned == findReturnedObjectIn(mapper, scope.env, depth + 1)
         IN  IF Thrown(returned) THEN returned
             ELSE ArrayFromLoop(mapper, scope.baseEnv, depth, length, index + 1,
                                Append(result, IF returned.val = Undefined THEN Null
                                               ELSE returned.val))
    ELSE ArrayFromLoop(mapper, env, depth, length, index + 1, Append(result, Null))

\* undefined when the call is not Array.from(...)
evalArrayFromCall(node, env, depth) ==
    LET length == extractArrayFromLength(Arg(node, 1), env, depth + 1)
    IN  IF ~isArrayFromCall(node) THEN R(Undefined)
        ELSE IF Thrown(length) THEN length
        ELSE IF ~IsFinite(length.val) THEN R(Arr(<<>>))
        ELSE ArrayFromLoop(Arg(node, 2), env, depth, length.val, 0, <<>>)

evalFakerCall(node, env, depth) ==
    LET path == getPropertyAccessPath(node.expression)
        method == Join(Tail(path), <<".">>)
        lengthValue == IF Arg(node, 1) # NoNode THEN evalValue(Arg(node, 1), env, depth + 1)
                       ELSE R(Num(0))
        floor == lengthValue.val.n \div lengthValue.val.d
        length == IF IsFinite(lengthValue.val) THEN (IF floor > 1 THEN floor ELSE 1) ELSE 6
    IN  IF path = <<>> \/ path[1] # s_faker THEN R(Undefined)
        ELSE IF method = s_string \o <<".">> \o s_numeric
        THEN IF Thrown(lengthValue) THEN lengthValue ELSE R(Str(makeNumericString(length)))
        ELSE IF method = s_commerce \o <<".">> \o s_productName THEN R(Str(s_SampleProduct))
        ELSE R(Marker(Join(path, <<".">>)))

evalCallExpression(node, env, depth) ==
    OrElse(extractDefineHandlerReturn(node, env, depth + 1),
           OrElse(evalArrayFromCall(node, env, depth + 1),
                  OrElse(evalFakerCall(node, env, depth + 1), R(ExprMarker))))

evalValue(node, env, depth) ==
    IF depth > StackLimit THEN Throw("RangeError")
    ELSE CASE node.kind = "ParenthesizedExpression" -> evalValue(node.expression, env, depth + 1)
           [] node.kind \in {"StringLiteral", "NoSubstitutionTemplateLiteral"} -> R(Str(node.text))
           [] node.kind = "NumericLiteral" -> R(StringToNumber(node.text))
           [] node.kind = "TemplateExpression" -> evalTemplateExpression(node, env, depth + 1)
           [] node.kind = "PrefixUnaryExpression" -> evalPrefixUnary(node, env, depth + 1)
           [] node.kind = "BinaryExpression" -> evalBinaryExpression(node, env, depth + 1)
           [] node.kind = "ConditionalExpression" -> evalConditionalExpression(node, env, depth + 1)
           [] node.kind = "TrueKeyword" -> R(Bool(TRUE))
           [] node.kind = "FalseKeyword" -> R(Bool(FALSE))
           [] node.kind = "NullKeyword" -> R(Null)
           [] node.kind = "ArrayLiteralExpression" -> EvalElements(node.elements, env, depth, 1, <<>>)
           [] node.kind \in {"AsExpression", "NonNullExpression"} ->
                evalValue(node.expression, env, depth + 1)
           [] node.kind = "ObjectLiteralExpression" -> evalObjectLiteral(node, env, depth + 1)
           [] node.kind = "Identifier" ->
                LET resolved == EnvGet(env, node.text)
                IN  IF resolved.type = "value" THEN R(resolved.value)
                    ELSE IF resolved.type = "expr" THEN evalValue(resolved.node, env, depth + 1)
                    ELSE R(Marker(node.text))
           [] node.kind \in {"ArrowFunction", "FunctionExpression"} ->
                OrElse(findReturnedObject(node, env, <<>>, depth + 1), R(FunctionMarker))
           [] node.kind = "CallExpression" -> evalCallExpression(node, env, depth + 1)
           [] OTHER -> R(ExprMarker)

\* a loop that keeps the first object-literal return
RECURSIVE ScanReturnsFirstObject(_, _, _)
ScanReturnsFirstObject(returns, i, last) ==
    IF i > Len(returns) THEN last
    ELSE LET expr == returns[i]
         IN  ScanReturnsFirstObject(returns, i + 1,
                 [lastExpr |-> expr,
                  lastObject |-> IF expr.kind = "ObjectLiteralExpression" /\ last.lastObject = NoNode
                                 THEN expr ELSE last.lastObject,
                  lastIdentifier |-> IF expr.kind = "Identifier" THEN expr
                                     ELSE last.lastIdentifier])

\* The loop of findReturnedObject over the collected return expressions.
RECURSIVE ScanReturns(_, _, _)
ScanReturns(returns, i, last) ==
    IF i > Len(returns) THEN last
    ELSE LET expr == returns[i]
         IN  ScanReturns(returns, i + 1,
                 [lastExpr |-> expr,
                  lastObject |-> IF expr.kind = "ObjectLiteralExpression" THEN expr
                                 ELSE last.lastObject,
                  lastIdentifier |-> IF expr.kind # "ObjectLiteralExpression"
                                        /\ expr.kind = "Identifier"
                                     THEN expr ELSE last.lastIdentifier])

\* findReturnedObject once localEnv is built
findReturnedObjectIn(fn, localEnv, depth) ==
    IF depth > StackLimit THEN Throw("RangeError")
    ELSE IF fn.body.kind # "Block" THEN evalValue(fn.body, localEnv, depth + 1)
    ELSE LET returns == collectReturnExpressions(fn.body)
             last == ScanReturns(returns, 1, [lastExpr |-> NoNode, lastObject |-> NoNode,
                                              lastIdentifier |-> NoNode])
             resolved == EnvGet(localEnv, last.lastIdentifier.text)
         IN  IF last.lastObject # NoNode
             THEN evalObjectLiteral(last.lastObject, localEnv, depth + 1)
             ELSE IF last.lastIdentifier # NoNode /\ resolved.type = "value"
             THEN R(resolved.value)
             ELSE IF last.lastIdentifier # NoNode /\ resolved.type = "expr"
             THEN evalValue(resolved.node, localEnv, depth + 1)
             ELSE IF last.lastExpr # NoNode THEN evalValue(last.lastExpr, localEnv, depth + 1)
             ELSE R(Undefined)

RECURSIVE extractObjectFromExpression(_, _, _)
extractObjectFromExpression(expr, env, depth) ==
    LET resolved == EnvGet(env, expr.text)
        fn == Arg(expr, 1)
    IN  IF depth > StackLimit THEN Throw("RangeError")
        ELSE IF expr.kind = "ParenthesizedExpression"
        THEN extractObjectFromExpression(expr.expression, env, depth + 1)
        ELSE IF expr.kind = "Identifier" /\ resolved.type = "expr"
        THEN extractObjectFromExpression(resolved.node, env, depth + 1)
        ELSE IF expr.kind = "Identifier" /\ resolved.type = "value" THEN R(resolved.value)
        ELSE IF expr.kind = "ObjectLiteralExpression" THEN evalObjectLiteral(expr, env, depth + 1)
        ELSE IF expr.kind = "CallExpression"
        THEN OrElse(extractDefineHandlerReturn(expr, env, depth + 1),
                    IF fn # NoNode /\ IsFunctionNode(fn)
                    THEN findReturnedObject(fn, env, <<>>, depth + 1)
                    ELSE R(Undefined))
        ELSE R(Undefined)

ExportAssignment(e) == [kind |-> "ExportAssignment", expression |-> e]
SourceFile(stmts) == [statements |-> stmts]

NotParsed == [thrown |-> "", ok |-> FALSE, value |-> Undefined]

\* for (const stmt of source.statements)
RECURSIVE FirstExport(_, _, _)
FirstExport(source, env, i) ==
    IF i > Len(source.statements) THEN NotParsed
    ELSE LET stmt == source.statements[i]
             returnIt(value) ==
                 IF Thrown(value) THEN [thrown |-> value.thrown, ok |-> FALSE, value |-> Undefined]
                 ELSE IF value.val # Undefined THEN [thrown |-> "", ok |-> TRUE, value |-> value.val]
                 ELSE FirstExport(source, env, i + 1)
         IN  IF stmt.kind # "ExportAssignment" THEN FirstExport(source, env, i + 1)
             ELSE returnIt(extractObjectFromExpression(stmt.expression, env, 1))

\* `source` is the tree ts.createSourceFile returns for the raw text.
parseTsExportedObject(source, tsLoads) ==
    IF ~tsLoads THEN NotParsed
    ELSE FirstExport(source, collectConstExpressions(source), 1)


\* JSON.parse(raw), then jsonc.parse(raw), are library calls on the raw
\* text: `jsonParses` tells whether one of them returns a value.
buildPreview(fileExt, source, tsLoads, jsonParses) ==
    LET previewOf(parsed) ==
            IF parsed.thrown # ""
            THEN [thrown |-> parsed.thrown, meta |-> "", text |-> <<>>, raw |-> FALSE]
            ELSE IF parsed.ok
            THEN [thrown |-> "", meta |-> "parsed export default",
                  text |-> JSONStringify(parsed.value, 2, 0), raw |-> FALSE]
            ELSE [thrown |-> "", meta |-> "raw source", text |-> <<>>, raw |-> TRUE]
    IN  IF fileExt \in {"json", "jsonc"}
        THEN [thrown |-> "", meta |-> IF jsonParses THEN "parsed json" ELSE "raw json (parse failed)",
              text |-> <<>>, raw |-> ~jsonParses]
        ELSE IF fileExt \in {"ts", "js", "mjs", "cjs"}
        THEN previewOf(parseTsExportedObject(source, tsLoads))
        ELSE [thrown |-> "", meta |-> "raw source", text |-> <<>>, raw |-> TRUE]

(***************************************************************************)
(* Sources considered                                                      *)
(***************************************************************************)
n_a == <<"a">>
n_b == <<"b">>
n_i == <<"i">>
n_k == <<"k">>
n_v == <<"v">>
n_foo == <<"f", "o", "o">>
n_index == <<"i", "n", "d", "e", "x">>
n_underscore == <<"_">>

\* greatest length given to Array.from
MaxLength == 3
\* greatest number of statements in a function body
MaxBody == 3

N(k) == NumericLiteral(NatToString(k))
Id(name) == Identifier(name)
Prop(name, init) == PropertyAssignment(Identifier(name), init)
ObjectOf(name, init) == ObjectLiteralExpression(<<Prop(name, init)>>)

Leaves ==
    {N(0), N(1), N(2)}
        \cup {StringLiteral(<<"a">>), StringLiteral(<<>>), TrueKeyword, FalseKeyword, NullKeyword,
              Id(n_foo), Id(n_a), Id(n_b)}

Branches == {N(1), StringLiteral(<<"a">>), Id(n_foo), Id(n_a)}

\* "??" stands for the operators evalBinaryExpression has no case for,
\* "~" for those evalPrefixUnary has no case for
BinaryOperators ==
    {"+", "-", "*", "/", "%", "===", "!==", "==", "!=", ">", ">=", "<", "<=", "&&", "||", "??"}
ArithmeticOperators == {"+", "-", "*", "/", "%"}
PrefixOperators == {"!", "+", "-", "~"}

Binaries == {BinaryExpression(l, op, r) : l \in Leaves, op \in BinaryOperators, r \in Leaves}
Unaries == {PrefixUnaryExpression(op, e) : op \in PrefixOperators, e \in Leaves}
Conditionals == {ConditionalExpression(c, x, y) : c \in Leaves, x \in Branches, y \in Branches}
Templates ==
    {TemplateExpression(h, <<TemplateSpan(e, <<>>)>>) : h \in {<<>>, <<"x">>}, e \in Leaves}
        \cup {TemplateExpression(<<"x">>, <<TemplateSpan(Id(n_foo), <<"-">>), TemplateSpan(N(1), <<"y">>)>>),
              NoSubstitutionTemplateLiteral(<<"x">>)}
Wrapped ==
    {ParenthesizedExpression(e) : e \in Leaves}
        \cup {AsExpression(e) : e \in Leaves} \cup {NonNullExpression(e) : e \in Leaves}
Collections ==
    {ArrayLiteralExpression(<<e>>) : e \in Leaves}
        \cup {ObjectOf(n_k, e) : e \in Leaves}
        \cup {ArrayLiteralExpression(<<>>), ArrayLiteralExpression(<<N(1), Id(n_foo), OtherExpression>>),
              ObjectLiteralExpression(<<>>),
              ObjectLiteralExpression(<<ShorthandPropertyAssignment(n_a)>>),
              ObjectLiteralExpression(<<ShorthandPropertyAssignment(n_foo), Prop(n_k, N(1))>>),
              ObjectLiteralExpression(<<PropertyAssignment(ComputedPropertyName, N(1)),
                                        PropertyAssignment(StringLiteral(<<>>), N(2)),
                                        PropertyAssignment(StringLiteral(n_k), N(0))>>),
              ObjectLiteralExpression(<<Prop(n_k, N(1)),
                                        PropertyAssignment(NumericLiteral(<<"1">>), N(1)),
                                        PropertyAssignment(NumericLiteral(<<"0">>), N(0)),
                                        Prop(n_k, N(2)),
                                        MethodDeclaration(Id(n_v), Block(<<>>))>>)}

\* depth-one operands of the depth-two expressions
Operands ==
    {BinaryExpression(N(1), "/", N(2)), BinaryExpression(N(1), "%", N(0)),
     BinaryExpression(N(1), "/", N(0)), BinaryExpression(Id(n_foo), "+", N(1)),
     BinaryExpression(StringLiteral(<<>>), "+", N(1)), BinaryExpression(N(1), "+", N(1)),
     BinaryExpression(N(0), "-", N(1)), PrefixUnaryExpression("-", N(1)),
     NumericLiteral(<<"I", "n", "f", "i", "n", "i", "t", "y">>),
     ArrayLiteralExpression(<<N(1)>>), ObjectOf(n_k, N(1)),
     TemplateExpression(<<>>, <<TemplateSpan(N(1), <<>>)>>)}

Nested ==
    {BinaryExpression(e, op, l) : e \in Operands, op \in BinaryOperators, l \in Leaves}
        \cup {BinaryExpression(l, op, e) : e \in Operands, op \in BinaryOperators, l \in Leaves}
        \cup {BinaryExpression(e, op, f) : e \in Operands, op \in ArithmeticOperators, f \in Operands}
        \cup {PrefixUnaryExpression(op, e) : op \in PrefixOperators, e \in Operands}
        \cup {ConditionalExpression(e, N(1), N(2)) : e \in Operands}
        \cup {ConditionalExpression(c, e, N(2)) : c \in {TrueKeyword, FalseKeyword}, e \in Operands}
        \cup {ConditionalExpression(c, N(2), e) : c \in {TrueKeyword, FalseKeyword}, e \in Operands}

Call(callee, args) == CallExpression(Id(callee), args)
ArrayFrom(args) == CallExpression(PropertyAccessExpression(Id(s_Array), s_from), args)
Faker(a, b, args) ==
    CallExpression(PropertyAccessExpression(PropertyAccessExpression(Id(s_faker), a), b), args)
Const(name, init) == VariableStatement(TRUE, <<VariableDeclaration(Id(name), init)>>)

\* (_, i) => ({ index: i }), and the same producer with a block body
IndexProducers ==
    {ArrowFunction(<<Id(n_underscore), Id(n_i)>>, ParenthesizedExpression(ObjectOf(n_index, Id(n_i)))),
     ArrowFunction(<<Id(n_underscore), Id(n_i)>>, ObjectOf(n_index, Id(n_i))),
     FunctionExpression(<<Id(n_underscore), Id(n_i)>>,
                        Block(<<ReturnStatement(ObjectOf(n_index, Id(n_i)))>>)),
     FunctionExpression(<<ObjectBindingPattern, Id(n_a)>>,
                        Block(<<IfStatement(Id(n_foo), Block(<<ReturnStatement(N(0))>>)),
                                ReturnStatement(ObjectOf(n_index, Id(n_a)))>>))}

Producers ==
    IndexProducers
        \cup {ArrowFunction(<<Id(n_i)>>, ObjectOf(n_index, Id(n_i))),
              ArrowFunction(<<>>, Block(<<>>)),
              ArrowFunction(<<Id(n_underscore), Id(n_i)>>,
                            Block(<<Const(n_k, Id(n_i)),
                                    ReturnStatement(ObjectLiteralExpression(
                                        <<ShorthandPropertyAssignment(n_k),
                                          ShorthandPropertyAssignment(n_i),
                                          ShorthandPropertyAssignment(n_a)>>))>>)),
              ArrowFunction(<<Id(n_underscore), Id(n_i)>>,
                            TemplateExpression(<<>>, <<TemplateSpan(Id(n_i), <<>>)>>)),
              Id(n_a)}

\* first arguments of Array.from whose length is statically known
StaticLengths ==
    {N(n) : n \in 0..MaxLength}
        \cup {ObjectOf(s_length, N(n)) : n \in 0..MaxLength}
        \cup {ArrayLiteralExpression([j \in 1..n |-> N(0)]) : n \in 0..MaxLength}
        \cup {BinaryExpression(N(1), "+", N(2)),
              ObjectLiteralExpression(<<Prop(n_k, N(1)),
                                        PropertyAssignment(StringLiteral(s_length), N(2))>>),
              ObjectOf(s_length, BinaryExpression(N(1), "+", N(1)))}

OtherLengths ==
    {Id(n_foo), Id(n_a), StringLiteral(<<"2">>), ObjectOf(s_length, StringLiteral(<<"2">>)),
     ObjectLiteralExpression(<<ShorthandPropertyAssignment(s_length)>>),
     ObjectOf(s_length, BinaryExpression(N(1), "/", N(0))),
     BinaryExpression(N(1), "/", N(2)), BinaryExpression(N(0), "-", N(1)),
     NumericLiteral(<<"I", "n", "f", "i", "n", "i", "t", "y">>),
     TemplateExpression(<<>>, <<TemplateSpan(N(1), <<>>)>>)}

ArrayFromCalls ==
    {ArrayFrom(<<len, fn>>) : len \in StaticLengths \cup OtherLengths, fn \in Producers}
        \cup {ArrayFrom(<<len>>) : len \in StaticLengths \cup OtherLengths}
        \cup {ArrayFrom(<<>>),
              CallExpression(PropertyAccessExpression(Id(n_foo), s_from), <<N(1)>>),
              CallExpression(PropertyAccessExpression(Id(s_Array), n_k), <<N(1)>>)}

Handlers ==
    {ArrowFunction(<<>>, ObjectOf(n_k, N(1))),
     ArrowFunction(<<>>, Block(<<ReturnStatement(NoNode)>>)),
     ArrowFunction(<<Id(n_a)>>, Block(<<ReturnStatement(Id(n_a))>>)),
     FunctionExpression(<<>>, Block(<<Const(n_k, N(2)), ReturnStatement(Id(n_k))>>)),
     FunctionExpression(<<>>, Block(<<ReturnStatement(TemplateExpression(<<>>, <<TemplateSpan(N(1), <<>>)>>))>>))}

Calls ==
    {Call(s_defineHandler, <<fn>>) : fn \in Handlers}
        \cup {Call(s_defineHandler, <<ObjectOf(s_handler, fn)>>) : fn \in Handlers \cup {Id(n_a), N(1)}}
        \cup {Call(n_foo, <<fn>>) : fn \in Handlers}
        \cup {Call(s_defineHandler, <<>>), Call(s_defineHandler, <<N(1)>>),
              Call(s_defineHandler, <<ObjectLiteralExpression(<<ShorthandPropertyAssignment(s_handler)>>)>>),
              CallExpression(PropertyAccessExpression(Id(n_foo), s_defineHandler),
                             <<ArrowFunction(<<>>, N(1))>>),
              Call(n_foo, <<>>), Call(s_faker, <<>>), OtherExpression,
              Faker(s_string, s_numeric, <<>>), Faker(s_string, s_numeric, <<N(2)>>),
              Faker(s_string, s_numeric, <<BinaryExpression(N(1), "/", N(2))>>),
              Faker(s_string, s_numeric, <<Id(n_foo)>>),
              Faker(s_string, s_numeric, <<ArrayFrom(<<N(12)>>)>>),
              Faker(s_commerce, s_productName, <<>>), Faker(s_string, n_k, <<>>),
              CallExpression(PropertyAccessExpression(Call(n_foo, <<>>), n_k), <<>>)}

Functions == Handlers \cup (Producers \ {Id(n_a)})

Expressions ==
    Leaves \cup Binaries \cup Unaries \cup Conditionals \cup Templates \cup Wrapped
        \cup Collections \cup Nested \cup ArrayFromCalls \cup Calls \cup Functions

\* Environments a caller can hold: top-level const declarations are bound
\* to their initializers, parameters of an enclosing function to values.
Environments ==
    {EmptyEnv,
     [x \in {n_a} |-> ExprBinding(N(1))],
     [x \in {n_a, n_b} |-> IF x = n_a THEN ExprBinding(Id(n_b)) ELSE ExprBinding(Id(n_a))],
     [x \in {n_a, n_b} |-> IF x = n_a THEN ValueBinding(Num(2))
                           ELSE ExprBinding(StringLiteral(<<"s">>))],
     [x \in {n_a, n_b, s_handler, s_length} |->
         CASE x = n_a -> ExprBinding(Id(n_foo))
           [] x = n_b -> ExprBinding(BinaryExpression(N(1), "/", N(0)))
           [] x = s_handler -> ExprBinding(ArrowFunction(<<>>, N(1)))
           [] OTHER -> ExprBinding(N(2))]}

\* Statements of the function bodies given to findReturnedObject
BodyStatements ==
    {ReturnStatement(ObjectOf(n_k, N(1))),
     ReturnStatement(ObjectLiteralExpression(<<ShorthandPropertyAssignment(n_i)>>)),
     ReturnStatement(Id(n_a)),
     ReturnStatement(Id(n_foo)),
     ReturnStatement(N(2)),
     ReturnStatement(NoNode),
     Const(n_a, N(1)),
     IfStatement(Id(n_foo), Block(<<ReturnStatement(ObjectOf(n_k, Id(n_a)))>>)),
     FunctionDeclaration(Block(<<Const(n_a, N(2)), ReturnStatement(ObjectOf(n_k, N(2)))>>))}

RECURSIVE Bodies(_)
Bodies(n) ==
    IF n = 0 THEN {<<>>}
    ELSE Bodies(n - 1) \cup {Append(b, st) : b \in {c \in Bodies(n - 1) : Len(c) = n - 1},
                                            st \in BodyStatements}

OtherBodies ==
    {<<ExpressionStatement(ObjectLiteralExpression(
          <<MethodDeclaration(Id(n_v), Block(<<Const(n_a, StringLiteral(<<"m">>)),
                                              ReturnStatement(N(0))>>))>>)),
       ReturnStatement(Id(n_a))>>,
     <<VariableStatement(FALSE, <<VariableDeclaration(Id(n_a), N(0))>>),
       VariableStatement(TRUE, <<VariableDeclaration(ObjectBindingPattern, N(0)),
                                 VariableDeclaration(Id(n_b), NoNode),
                                 VariableDeclaration(Id(n_k), N(1))>>),
       ReturnStatement(ParenthesizedExpression(ObjectOf(n_k, Id(n_k))))>>,
     <<ExpressionStatement(Call(n_foo, <<ArrowFunction(<<>>, Block(<<ReturnStatement(N(0))>>))>>)),
       Const(n_k, ArrowFunction(<<>>, Block(<<Const(n_a, N(0))>>))),
       ReturnStatement(Id(n_k))>>,
     <<Const(n_a, Id(n_a)), ReturnStatement(Id(n_a))>>,
     <<ReturnStatement(TemplateExpression(<<>>, <<TemplateSpan(N(1), <<>>)>>))>>}

\* <<parameters, paramValues, caller environment>>
Invocations ==
    {<<<<Id(n_underscore), Id(n_i)>>, <<Undefined, Num(1)>>, EmptyEnv>>,
     <<<<>>, <<>>, [x \in {n_a} |-> ExprBinding(StringLiteral(<<"s">>))]>>,
     <<<<Id(n_underscore), Id(n_a)>>, <<Undefined, Num(1)>>,
       [x \in {n_a, n_i} |-> IF x = n_a THEN ExprBinding(StringLiteral(<<"s">>))
                             ELSE ValueBinding(Num(0))]>>,
     <<<<ObjectBindingPattern, Id(n_i), Id(n_a)>>, <<Undefined, Num(1)>>,
       [x \in {n_a, n_b} |-> IF x = n_a THEN ExprBinding(Id(n_b)) ELSE ExprBinding(Id(n_a))]>>}

\* Top-level declarations of a route file
Declarations ==
    {<<>>,
     <<Const(n_a, N(1))>>,
     <<Const(n_a, Id(n_b)), Const(n_b, Id(n_a))>>,
     <<Const(n_a, ObjectOf(n_k, Id(n_foo))), Const(s_handler, ArrowFunction(<<>>, N(1)))>>,
     <<VariableStatement(FALSE, <<VariableDeclaration(Id(n_a), N(1))>>),
       VariableStatement(TRUE, <<VariableDeclaration(ObjectBindingPattern, N(1)),
                                 VariableDeclaration(Id(n_b), ObjectLiteralExpression(<<>>))>>)>>}

Exported ==
    {ObjectOf(n_v, e) : e \in Leaves \cup Operands \cup Templates \cup Calls \cup Functions}
        \cup {ObjectOf(n_v, ArrayFrom(<<len, fn>>)) : len \in StaticLengths, fn \in IndexProducers}
        \cup Leaves \cup Calls
        \cup {ParenthesizedExpression(ObjectOf(n_v, N(1))), ParenthesizedExpression(Id(n_a)),
              ObjectLiteralExpression(<<ShorthandPropertyAssignment(n_a),
                                        ShorthandPropertyAssignment(n_foo)>>),
              ObjectOf(n_v, BinaryExpression(N(1), "??", N(2))),
              ObjectOf(n_v, BinaryExpression(N(1), "+", N(2))),
              ObjectOf(n_v, ArrayLiteralExpression(<<Id(n_a), ObjectOf(n_k, Id(n_b))>>))}

SourceFiles ==
    {SourceFile(decls \o <<ExportAssignment(e)>>) : decls \in Declarations, e \in Exported}
        \cup {SourceFile(decls) : decls \in Declarations}
        \cup {SourceFile(<<ExportAssignment(N(1)), Const(n_a, N(1)),
                           ExportAssignment(ObjectLiteralExpression(<<ShorthandPropertyAssignment(n_a)>>)),
                           ExportAssignment(ObjectOf(n_v, N(2)))>>)}

(***************************************************************************)
(* Zod mapper (dts/zod-mapper.ts): the JSON Schema of a zod call chain.    *)
(* A schema is a JavaScript object, so the order of its keys is the order  *)
(* in which the mapper writes them.                                        *)
(***************************************************************************)
\* the method names of a zod call chain (min and email stand for the methods the mapper does not know)
Method ==
    [z |-> <<"z">>,
     coerce |-> <<"c", "o", "e", "r", "c", "e">>,
     optional |-> <<"o", "p", "t", "i", "o", "n", "a", "l">>,
     nullable |-> <<"n", "u", "l", "l", "a", "b", "l", "e">>,
     nullish |-> <<"n", "u", "l", "l", "i", "s", "h">>,
     extend |-> <<"e", "x", "t", "e", "n", "d">>,
     merge |-> <<"m", "e", "r", "g", "e">>,
     pipe |-> <<"p", "i", "p", "e">>,
     transform |-> <<"t", "r", "a", "n", "s", "f", "o", "r", "m">>,
     refine |-> <<"r", "e", "f", "i", "n", "e">>,
     superRefine |-> <<"s", "u", "p", "e", "r", "R", "e", "f", "i", "n", "e">>,
     default |-> <<"d", "e", "f", "a", "u", "l", "t">>,
     catch |-> <<"c", "a", "t", "c", "h">>,
     brand |-> <<"b", "r", "a", "n", "d">>,
     describe |-> <<"d", "e", "s", "c", "r", "i", "b", "e">>,
     string |-> <<"s", "t", "r", "i", "n", "g">>,
     number |-> <<"n", "u", "m", "b", "e", "r">>,
     boolean |-> <<"b", "o", "o", "l", "e", "a", "n">>,
     date |-> <<"d", "a", "t", "e">>,
     array |-> <<"a", "r", "r", "a", "y">>,
     tuple |-> <<"t", "u", "p", "l", "e">>,
     object |-> <<"o", "b", "j", "e", "c", "t">>,
     record |-> <<"r", "e", "c", "o", "r", "d">>,
     enum |-> <<"e", "n", "u", "m">>,
     union |-> <<"u", "n", "i", "o", "n">>,
     discriminatedUnion |-> <<"d", "i", "s", "c", "r", "i", "m", "i", "n", "a", "t", "e", "d", "U", "n", "i", "o", "n">>,
     preprocess |-> <<"p", "r", "e", "p", "r", "o", "c", "e", "s", "s">>,
     literal |-> <<"l", "i", "t", "e", "r", "a", "l">>,
     min |-> <<"m", "i", "n">>,
     email |-> <<"e", "m", "a", "i", "l">>]

\* the JSON Schema keywords the mappers write
Keyword ==
    [type |-> <<"t", "y", "p", "e">>,
     format |-> <<"f", "o", "r", "m", "a", "t">>,
     items |-> <<"i", "t", "e", "m", "s">>,
     minItems |-> <<"m", "i", "n", "I", "t", "e", "m", "s">>,
     maxItems |-> <<"m", "a", "x", "I", "t", "e", "m", "s">>,
     properties |-> <<"p", "r", "o", "p", "e", "r", "t", "i", "e", "s">>,
     required |-> <<"r", "e", "q", "u", "i", "r", "e", "d">>,
     additionalProperties |-> <<"a", "d", "d", "i", "t", "i", "o", "n", "a", "l", "P", "r", "o", "p", "e", "r", "t", "i", "e", "s">>,
     propertyNames |-> <<"p", "r", "o", "p", "e", "r", "t", "y", "N", "a", "m", "e", "s">>,
     enum |-> <<"e", "n", "u", "m">>,
     oneOf |-> <<"o", "n", "e", "O", "f">>,
     anyOf |-> <<"a", "n", "y", "O", "f">>,
     allOf |-> <<"a", "l", "l", "O", "f">>,
     discriminator |-> <<"d", "i", "s", "c", "r", "i", "m", "i", "n", "a", "t", "o", "r">>,
     propertyName |-> <<"p", "r", "o", "p", "e", "r", "t", "y", "N", "a", "m", "e">>,
     const |-> <<"c", "o", "n", "s", "t">>,
     ref |-> <<"$", "r", "e", "f">>]

\* the values written for `type` and `format`
TypeName ==
    [string |-> <<"s", "t", "r", "i", "n", "g">>,
     number |-> <<"n", "u", "m", "b", "e", "r">>,
     boolean |-> <<"b", "o", "o", "l", "e", "a", "n">>,
     array |-> <<"a", "r", "r", "a", "y">>,
     object |-> <<"o", "b", "j", "e", "c", "t">>,
     null |-> <<"n", "u", "l", "l">>,
     integer |-> <<"i", "n", "t", "e", "g", "e", "r">>,
     dateTime |-> <<"d", "a", "t", "e", "-", "t", "i", "m", "e">>]
KV(k, v) == [k |-> k, v |-> v]
\* { type: t }
TypeSchema(t) == Obj(<<KV(Keyword.type, Str(t))>>)
EmptySchema == Obj(<<>>)

\* SchemaWithFlags | null; an absent `optional` reads as false
ZodNull == [isNull |-> TRUE, schema |-> Undefined, optional |-> FALSE]
SchemaWithFlags(schema, optional) == [isNull |-> FALSE, schema |-> schema, optional |-> optional]

\* args[i], NoNode when there is none
ArgAt(args, i) == IF Len(args) >= i THEN args[i] ELSE NoNode

\* The text of the name, or the empty string for null: `!key` is true of both.
propertyNameText(name) ==
    IF name.kind \in {"Identifier", "StringLiteral", "NumericLiteral"} THEN name.text ELSE <<>>

isZodCoerceCall(callee) ==
    /\ callee.expression.kind = "PropertyAccessExpression"
    /\ callee.expression.expression.kind = "Identifier"
    /\ callee.expression.expression.text = Method.z
    /\ callee.expression.name.text = Method.coerce

isObjectSchema(schema) ==
    HasKey(schema, Keyword.type) /\ Get(schema, Keyword.type) = Str(TypeName.object)

\* { ...target, ...source }
RECURSIVE Spread(_, _, _)
Spread(target, props, i) ==
    IF i > Len(props) THEN target
    ELSE Spread(ObjSet(target, props[i].k, props[i].v), props, i + 1)

\* Array.from(new Set(xs)): the first occurrence of each element, in order
RECURSIVE Unique(_, _, _)
Unique(xs, i, acc) ==
    IF i > Len(xs) THEN acc
    ELSE Unique(xs, i + 1,
                IF \E j \in 1..Len(acc) : acc[j] = xs[i] THEN acc ELSE Append(acc, xs[i]))

\* obj.properties as the spread reads it, and the `required` array if there is one
PropertiesOf(obj) ==
    IF HasKey(obj, Keyword.properties) THEN Get(obj, Keyword.properties).xs ELSE <<>>
RequiredOf(obj) ==
    IF HasKey(obj, Keyword.required) /\ Get(obj, Keyword.required).t = "array"
    THEN Get(obj, Keyword.required).xs ELSE <<>>

\* { type: 'object', properties } and `required` when it is not empty
ObjectSchema(properties, required) ==
    Obj(<<KV(Keyword.type, Str(TypeName.object)), KV(Keyword.properties, Obj(properties))>>
        \o (IF Len(required) > 0 THEN <<KV(Keyword.required, Arr(required))>> ELSE <<>>))

\* a merge in which the base wins a key collision
mergeObjectSchemasBaseWins(base, extension) ==
    IF ~isObjectSchema(base.schema) \/ ~isObjectSchema(extension.schema) THEN base
    ELSE SchemaWithFlags(
             ObjectSchema(Spread(Spread(<<>>, PropertiesOf(extension.schema), 1),
                                 PropertiesOf(base.schema), 1),
                          Unique(RequiredOf(base.schema) \o RequiredOf(extension.schema),
                                 1, <<>>)),
             FALSE)

mergeObjectSchemas(base, extension) ==
    IF ~isObjectSchema(base.schema) \/ ~isObjectSchema(extension.schema) THEN base
    ELSE SchemaWithFlags(
             ObjectSchema(Spread(Spread(<<>>, PropertiesOf(base.schema), 1),
                                 PropertiesOf(extension.schema), 1),
                          Unique(RequiredOf(base.schema) \o RequiredOf(extension.schema),
                                 1, <<>>)),
             FALSE)

\* { schema: base.schema, optional: true }, null for no base
OptionalOfKeepsFlag(base) == base
OptionalOf(base) == IF base.isNull THEN ZodNull ELSE SchemaWithFlags(base.schema, TRUE)

\* { schema: { anyOf: [base.schema, { type: 'null' }] } } with the flag given
NullableOf(base, optional) ==
    IF base.isNull THEN ZodNull
    ELSE SchemaWithFlags(
             Obj(<<KV(Keyword.anyOf, Arr(<<base.schema, TypeSchema(TypeName.null)>>))>>),
             optional)

\* parsed?.schema ?? {}
SchemaOrEmpty(parsed) == IF parsed.isNull THEN EmptySchema ELSE parsed.schema
\* parsed ?? { schema: {} }
ParsedOrEmpty(parsed) == IF parsed.isNull THEN SchemaWithFlags(EmptySchema, FALSE) ELSE parsed
\* mapped when there is one, and the base otherwise
MappedOr(mapped, base) == IF mapped.isNull THEN base ELSE mapped

\* required.push(key) unless the fragment is optional
PushRequiredAlways(required, key, parsed) == Append(required, Str(key))
PushRequired(required, key, parsed) ==
    IF parsed.optional THEN required ELSE Append(required, Str(key))

PassThrough ==
    {Method.transform, Method.refine, Method.superRefine, Method.default, Method.catch,
     Method.brand, Method.describe}

RECURSIVE schemaFromZodExpression(_, _)
RECURSIVE schemaFromZodCall(_, _, _)

\* the loop of schemaFromZodObjectShape
RECURSIVE ShapeLoop(_, _, _, _, _)
ShapeLoop(props, env, i, properties, required) ==
    IF i > Len(props) THEN SchemaWithFlags(ObjectSchema(properties, required), FALSE)
    ELSE LET prop == props[i]
             key == IF prop.kind = "PropertyAssignment" THEN propertyNameText(prop.name)
                    ELSE <<>>
             add(parsed) ==
                 IF parsed.isNull THEN ShapeLoop(props, env, i + 1, properties, required)
                 ELSE ShapeLoop(props, env, i + 1, ObjSet(properties, key, parsed.schema),
                                PushRequired(required, key, parsed))
         IN  IF key = <<>> THEN ShapeLoop(props, env, i + 1, properties, required)
             ELSE add(schemaFromZodExpression(prop.initializer, env))

schemaFromZodObjectShape(shape, env) == ShapeLoop(shape.properties, env, 1, <<>>, <<>>)

\* elements.map(el => schemaFromZodExpression(el, ts, env)?.schema ?? {})
RECURSIVE MapSchemas(_, _, _)
MapSchemas(elements, env, i) ==
    IF i > Len(elements) THEN <<>>
    ELSE <<SchemaOrEmpty(schemaFromZodExpression(elements[i], env))>>
         \o MapSchemas(elements, env, i + 1)

\* the texts of the string literals among the elements, the empty ones left out
RECURSIVE EnumValues(_, _)
EnumValues(elements, i) ==
    IF i > Len(elements) THEN <<>>
    ELSE (IF elements[i].kind = "StringLiteral" /\ elements[i].text # <<>>
          THEN <<Str(elements[i].text)>> ELSE <<>>)
         \o EnumValues(elements, i + 1)

\* an extend that leaves the base as it is
ExtendIgnored(base, extension, env) == base

\* base.extend(extension)
ExtendWith(base, extension, env) ==
    IF base.isNull \/ extension.kind # "ObjectLiteralExpression" THEN base
    ELSE mergeObjectSchemas(base, schemaFromZodObjectShape(extension, env))

\* base.merge(other)
MergeWith(base, other) ==
    IF base.isNull THEN other
    ELSE IF other.isNull THEN base
    ELSE mergeObjectSchemas(base, other)

\* the schema of the argument, null without an argument
OfArg(arg, env) == IF arg = NoNode THEN ZodNull ELSE schemaFromZodExpression(arg, env)

\* { oneOf } with the discriminator when its name is a non-empty string literal
UnionSchema(oneOf, key) ==
    Obj(<<KV(Keyword.oneOf, Arr(oneOf))>>
        \o (IF key.kind = "StringLiteral" /\ key.text # <<>>
            THEN <<KV(Keyword.discriminator,
                      Obj(<<KV(Keyword.propertyName, Str(key.text))>>))>>
            ELSE <<>>))

\* { type: 'object', additionalProperties } with propertyNames when the key reduces
RecordSchema(additionalProperties, propertyNames) ==
    Obj(<<KV(Keyword.type, Str(TypeName.object)),
          KV(Keyword.additionalProperties, additionalProperties)>>
        \o (IF propertyNames.isNull THEN <<>>
            ELSE <<KV(Keyword.propertyNames, propertyNames.schema)>>))

\* { type: 'array', items, minItems, maxItems }
TupleSchema(items) ==
    Obj(<<KV(Keyword.type, Str(TypeName.array)), KV(Keyword.items, Arr(items)),
          KV(Keyword.minItems, Num(Len(items))), KV(Keyword.maxItems, Num(Len(items)))>>)

LiteralSchema(arg) ==
    CASE arg.kind = "StringLiteral" ->
           Obj(<<KV(Keyword.type, Str(TypeName.string)), KV(Keyword.const, Str(arg.text))>>)
      [] arg.kind = "NumericLiteral" ->
           Obj(<<KV(Keyword.type, Str(TypeName.number)),
                 KV(Keyword.const, StringToNumber(arg.text))>>)
      [] arg.kind \in {"TrueKeyword", "FalseKeyword"} ->
           Obj(<<KV(Keyword.type, Str(TypeName.boolean)),
                 KV(Keyword.const, Bool(arg.kind = "TrueKeyword"))>>)
      [] OTHER -> EmptySchema

schemaFromZodCall(method, args, env) ==
    LET first == ArgAt(args, 1)
        second == ArgAt(args, 2)
        isList(arg) == arg.kind = "ArrayLiteralExpression"
        plain(schema) == SchemaWithFlags(schema, FALSE)
    IN  CASE method = Method.string -> plain(TypeSchema(TypeName.string))
          [] method = Method.number -> plain(TypeSchema(TypeName.number))
          [] method = Method.boolean -> plain(TypeSchema(TypeName.boolean))
          [] method = Method.date ->
               plain(Obj(<<KV(Keyword.type, Str(TypeName.string)),
                           KV(Keyword.format, Str(TypeName.dateTime))>>))
          [] method = Method.array ->
               plain(Obj(<<KV(Keyword.type, Str(TypeName.array)),
                           KV(Keyword.items, SchemaOrEmpty(OfArg(first, env)))>>))
          [] method = Method.tuple ->
               IF isList(first) THEN plain(TupleSchema(MapSchemas(first.elements, env, 1)))
               ELSE plain(TypeSchema(TypeName.array))
          [] method = Method.object ->
               IF first.kind # "ObjectLiteralExpression" THEN plain(TypeSchema(TypeName.object))
               ELSE schemaFromZodObjectShape(first, env)
          [] method = Method.record ->
               IF Len(args) > 1
               THEN plain(RecordSchema(SchemaOrEmpty(OfArg(second, env)), OfArg(first, env)))
               ELSE plain(RecordSchema(SchemaOrEmpty(OfArg(first, env)), ZodNull))
          [] method = Method.enum ->
               IF isList(first)
               THEN plain(Obj(<<KV(Keyword.type, Str(TypeName.string)),
                                KV(Keyword.enum, Arr(EnumValues(first.elements, 1)))>>))
               ELSE plain(TypeSchema(TypeName.string))
          [] method = Method.union ->
               IF isList(first)
               THEN plain(UnionSchema(MapSchemas(first.elements, env, 1), NoNode))
               ELSE plain(EmptySchema)
          [] method = Method.discriminatedUnion ->
               IF isList(second)
               THEN plain(UnionSchema(MapSchemas(second.elements, env, 1), first))
               ELSE plain(EmptySchema)
          [] method = Method.preprocess ->
               IF first = NoNode THEN plain(EmptySchema)
               ELSE ParsedOrEmpty(OfArg(IF second # NoNode THEN second ELSE first, env))
          [] method = Method.optional -> OptionalOf(OfArg(first, env))
          [] method = Method.nullable -> NullableOf(OfArg(first, env), FALSE)
          [] method = Method.literal -> plain(LiteralSchema(first))
          [] OTHER -> ZodNull

schemaFromZodExpression(node, env) ==
    IF node.kind = "Identifier" /\ node.text \in DOMAIN env THEN env[node.text]
    ELSE IF node.kind # "CallExpression" THEN ZodNull
    ELSE IF node.expression.kind # "PropertyAccessExpression" THEN ZodNull
    ELSE LET method == node.expression.name.text
             target == node.expression.expression
         IN  CASE method = Method.optional ->
                    OptionalOf(schemaFromZodExpression(target, env))
               [] method = Method.nullable ->
                    NullableOf(schemaFromZodExpression(target, env), FALSE)
               [] method = Method.nullish ->
                    NullableOf(schemaFromZodExpression(target, env), TRUE)
               [] method = Method.extend ->
                    ExtendWith(schemaFromZodExpression(target, env),
                               ArgAt(node.arguments, 1), env)
               [] method = Method.merge ->
                    MergeWith(schemaFromZodExpression(target, env),
                              OfArg(ArgAt(node.arguments, 1), env))
               [] method = Method.pipe ->
                    MappedOr(OfArg(ArgAt(node.arguments, 1), env),
                             schemaFromZodExpression(target, env))
               [] method \in PassThrough -> schemaFromZodExpression(target, env)
               [] OTHER ->
                    IF (target.kind = "Identifier" /\ target.text = Method.z)
                       \/ isZodCoerceCall(node.expression)
                    THEN schemaFromZodCall(method, node.arguments, env)
                    ELSE schemaFromZodExpression(target, env)

\* The declarations mapZodSchemas visits, in source order: those of the
\* top-level variable statements that have an identifier name and an initializer.
ZodDeclarations(source) ==
    LET declsOf(stmt) ==
            IF stmt.kind = "VariableStatement"
            THEN SelectSeq(stmt.declarations,
                           LAMBDA d : d.name.kind = "Identifier" /\ d.initializer # NoNode)
            ELSE <<>>
    IN  Join([i \in 1..Len(source.statements) |-> declsOf(source.statements[i])], <<>>)

\* a recording that keeps the first schema of a name
RecordDeclarationOnce(state, name, parsed) ==
    IF parsed.isNull \/ name \in DOMAIN state.env THEN state
    ELSE [schemas |-> ObjSet(state.schemas, name, parsed.schema),
          env |-> EnvSet(state.env, name, parsed)]

\* if (parsed?.schema) { schemas[name] = parsed.schema; env.set(name, parsed) }
RecordDeclaration(state, name, parsed) ==
    IF parsed.isNull THEN state
    ELSE [schemas |-> ObjSet(state.schemas, name, parsed.schema),
          env |-> EnvSet(state.env, name, parsed)]

RECURSIVE MapDeclarations(_, _, _)
MapDeclarations(decls, i, state) ==
    IF i > Len(decls) THEN state
    ELSE MapDeclarations(decls, i + 1,
             RecordDeclaration(state, decls[i].name.text,
                           schemaFromZodExpression(decls[i].initializer, state.env)))

mapZodSchemas(source, tsLoads) ==
    IF ~tsLoads THEN <<>>
    ELSE MapDeclarations(ZodDeclarations(source), 1, [schemas |-> <<>>, env |-> EmptyEnv]).schemas

(***************************************************************************)
(* Zod chains considered                                                   *)
(***************************************************************************)
n_id == <<"i", "d">>
n_name == <<"n", "a", "m", "e">>
n_f == <<"f">>
n_A == <<"A">>
n_B == <<"B">>
n_C == <<"C">>

\* greatest number of properties in an object shape
MaxShape == 2

\* z.method(args), z.coerce.method(args) and chain.method(args)
Z(method, args) == CallExpression(PropertyAccessExpression(Identifier(Method.z), method), args)
Coerce(method) ==
    CallExpression(
        PropertyAccessExpression(
            PropertyAccessExpression(Identifier(Method.z), Method.coerce), method), <<>>)
Chain(chain, method, args) == CallExpression(PropertyAccessExpression(chain, method), args)
Shape(props) == ObjectLiteralExpression(props)

ZString == Z(Method.string, <<>>)
ZNumber == Z(Method.number, <<>>)

\* z.object({ id: z.string() }) and the shape { f: z.string() }
ObjectA == Z(Method.object, <<Shape(<<PropertyAssignment(Identifier(n_id), ZString)>>)>>)
ShapeF == Shape(<<PropertyAssignment(Identifier(n_f), ZString)>>)

\* the properties of a shape: plain, optional, referring to a declaration,
\* not reducing, and without a static name
ShapeProperties ==
    {PropertyAssignment(Identifier(k), v) :
         k \in {n_id, n_name, n_f}, v \in {ZString, Chain(ZString, Method.optional, <<>>)}}
    \cup {PropertyAssignment(Identifier(n_id), ZNumber),
          PropertyAssignment(Identifier(n_id), Chain(ZNumber, Method.nullish, <<>>)),
          PropertyAssignment(StringLiteral(n_name), Id(n_A)),
          PropertyAssignment(Identifier(n_f), Id(n_foo)),
          PropertyAssignment(StringLiteral(<<>>), ZString),
          PropertyAssignment(ComputedPropertyName, ZString),
          ShorthandPropertyAssignment(n_id)}

RECURSIVE ShapesOf(_)
ShapesOf(n) ==
    IF n = 0 THEN {<<>>}
    ELSE ShapesOf(n - 1)
         \cup {Append(s, p) : s \in {t \in ShapesOf(n - 1) : Len(t) = n - 1},
                              p \in ShapeProperties}

Shapes == {Shape(s) : s \in ShapesOf(MaxShape)}
ZodObjects == {Z(Method.object, <<s>>) : s \in Shapes}

\* chains that reduce without an environment, and their arguments
ZodLeaves ==
    {ZString, ZNumber, Z(Method.boolean, <<>>), Z(Method.date, <<>>), Coerce(Method.number),
     Z(Method.object, <<>>),
     Z(Method.object, <<Shape(<<PropertyAssignment(Identifier(n_id), ZString)>>)>>),
     Z(Method.array, <<ZString>>), Z(Method.array, <<>>),
     Z(Method.tuple, <<ArrayLiteralExpression(<<ZString, ZNumber>>)>>),
     Z(Method.tuple, <<ZString>>),
     Z(Method.record, <<ZNumber>>), Z(Method.record, <<ZString, ZNumber>>),
     Z(Method.enum, <<ArrayLiteralExpression(<<StringLiteral(n_a), StringLiteral(<<>>),
                                                 StringLiteral(n_b), Id(n_A)>>)>>),
     Z(Method.enum, <<Id(n_A)>>),
     Z(Method.union, <<ArrayLiteralExpression(<<ZString, Id(n_A), Id(n_foo)>>)>>),
     Z(Method.union, <<>>),
     Z(Method.discriminatedUnion,
       <<StringLiteral(n_k), ArrayLiteralExpression(<<Id(n_A), Id(n_B)>>)>>),
     Z(Method.discriminatedUnion, <<Id(n_k), ArrayLiteralExpression(<<ZString>>)>>),
     Z(Method.discriminatedUnion, <<StringLiteral(n_k)>>),
     Z(Method.preprocess, <<OtherExpression, ZNumber>>),
     Z(Method.preprocess, <<ZString>>), Z(Method.preprocess, <<>>),
     Z(Method.preprocess, <<OtherExpression, Id(n_foo)>>),
     Z(Method.literal, <<StringLiteral(n_a)>>), Z(Method.literal, <<N(1)>>),
     Z(Method.literal, <<TrueKeyword>>), Z(Method.literal, <<NullKeyword>>)}

\* expressions that are not chains, or whose root is not known
ZodOthers ==
    {Id(n_A), Id(n_B), Id(n_foo), Identifier(Method.z), OtherExpression,
     StringLiteral(n_a), Call(Id(n_foo), <<>>), Call(Identifier(Method.z), <<>>),
     Z(Method.min, <<>>), Z(Method.optional, <<ZString>>), Z(Method.nullable, <<ZString>>),
     Coerce(Method.email)}

Modifiers ==
    {<<m, <<>>>> : m \in PassThrough \cup {Method.optional, Method.nullable, Method.nullish,
                                          Method.min, Method.email, Method.string}}
    \cup {<<Method.default, <<StringLiteral(n_a)>>>>,
          <<Method.pipe, <<ZNumber>>>>, <<Method.pipe, <<Id(n_foo)>>>>,
          <<Method.pipe, <<>>>>}

Modified(chains) == {Chain(c, m[1], m[2]) : c \in chains, m \in Modifiers}

\* the bases of extend and merge: object schemas, other schemas, and none
ZodBases ==
    {Z(Method.object, <<Shape(<<PropertyAssignment(Identifier(n_id), ZString)>>)>>),
     Z(Method.object,
       <<Shape(<<PropertyAssignment(Identifier(n_id), ZString),
                 PropertyAssignment(Identifier(n_name),
                                    Chain(ZString, Method.optional, <<>>))>>)>>),
     Chain(Z(Method.object, <<Shape(<<PropertyAssignment(Identifier(n_f), ZString)>>)>>),
           Method.optional, <<>>),
     Z(Method.object, <<>>), ZString, Id(n_A), Id(n_B), Id(n_foo)}

Extended ==
    {Chain(b, Method.extend, <<s>>) : b \in ZodBases, s \in Shapes}
    \cup {Chain(b, Method.extend, args) : b \in ZodBases, args \in {<<>>, <<Id(n_A)>>}}
Merged ==
    {Chain(b, Method.merge, <<o>>) : b \in ZodBases, o \in ZodBases \cup ZodObjects}
    \cup {Chain(b, Method.merge, <<>>) : b \in ZodBases}

ZodChains ==
    ZodLeaves \cup ZodOthers \cup ZodObjects
    \cup Modified(ZodLeaves \cup ZodOthers) \cup Modified(Modified({ZString, Id(n_A), Id(n_B)}))
    \cup Modified({Chain(b, Method.merge, <<o>>) : b \in ZodBases, o \in ZodBases})
    \cup Extended \cup Merged

\* the environments left by declarations that reduce
ZodDecl(name, init) == VariableDeclaration(Id(name), init)
EnvOf(decls) == MapDeclarations(decls, 1, [schemas |-> <<>>, env |-> EmptyEnv]).env

ZodEnvs ==
    {EmptyEnv,
     EnvOf(<<ZodDecl(n_A, Z(Method.object,
                            <<Shape(<<PropertyAssignment(Identifier(n_id), ZString)>>)>>)),
             ZodDecl(n_B, Chain(ZString, Method.optional, <<>>))>>),
     EnvOf(<<ZodDecl(n_A, Z(Method.object,
                            <<Shape(<<PropertyAssignment(Identifier(n_id), ZNumber),
                                      PropertyAssignment(Identifier(n_f),
                                          Chain(ZString, Method.optional, <<>>))>>)>>)),
             ZodDecl(n_B, Z(Method.object,
                            <<Shape(<<PropertyAssignment(Identifier(n_name), ZString),
                                      PropertyAssignment(Identifier(n_id), ZString)>>)>>))>>)}

\* greatest number of declarations in a source file
MaxDeclarations == 3

ZodDeclarationPool ==
    {ZodDecl(n_A, ZString),
     ZodDecl(n_A, Z(Method.object,
                    <<Shape(<<PropertyAssignment(Identifier(n_id), ZString)>>)>>)),
     ZodDecl(n_A, Id(n_B)),
     ZodDecl(n_A, OtherExpression),
     ZodDecl(n_B, Chain(Id(n_A), Method.optional, <<>>)),
     ZodDecl(n_B, Chain(Id(n_A), Method.extend,
                        <<Shape(<<PropertyAssignment(Identifier(n_f), ZString)>>)>>)),
     ZodDecl(n_B, Z(Method.array, <<Id(n_C)>>)),
     ZodDecl(n_B, Id(n_foo)),
     ZodDecl(n_C, Chain(Id(n_A), Method.merge, <<Id(n_B)>>)),
     ZodDecl(n_C, Chain(Id(n_B), Method.min, <<>>)),
     ZodDecl(n_C, Chain(Id(n_C), Method.describe, <<>>)),
     ZodDecl(n_C, Z(Method.object,
                    <<Shape(<<PropertyAssignment(Identifier(n_name), Id(n_A))>>)>>))}

RECURSIVE DeclarationLists(_)
DeclarationLists(n) ==
    IF n = 0 THEN {<<>>}
    ELSE DeclarationLists(n - 1)
         \cup {Append(s, d) : s \in {t \in DeclarationLists(n - 1) : Len(t) = n - 1},
                              d \in ZodDeclarationPool}

\* one statement for each declaration, and the other forms of a statement
ZodSources ==
    {SourceFile([i \in 1..Len(decls) |-> VariableStatement(TRUE, <<decls[i]>>)]) :
         decls \in DeclarationLists(MaxDeclarations)}
    \cup {SourceFile(<<VariableStatement(FALSE, <<ZodDecl(n_A, ZString),
                                                  VariableDeclaration(Id(n_C), NoNode),
                                                  ZodDecl(n_B, Id(n_A))>>),
                       ExpressionStatement(Z(Method.string, <<>>)),
                       VariableStatement(TRUE,
                           <<VariableDeclaration(ObjectBindingPattern, ZString)>>),
                       ExportAssignment(Id(n_B))>>)}

(***************************************************************************)
(* Declaration files (dts/parse-source.ts): the JSON Schema of the         *)
(* interfaces, type aliases and zod schemas of a file.  A warning is the   *)
(* tuple of the parts its text is made of.                                 *)
(***************************************************************************)
KeywordTypeNode(kind) == [kind |-> kind]
LiteralTypeNode(literal) == [kind |-> "LiteralType", literal |-> literal]
ArrayTypeNode(elementType) == [kind |-> "ArrayType", elementType |-> elementType]
TupleTypeNode(elements) == [kind |-> "TupleType", elements |-> elements]
UnionTypeNode(types) == [kind |-> "UnionType", types |-> types]
IntersectionTypeNode(types) == [kind |-> "IntersectionType", types |-> types]
TypeLiteralNode(members) == [kind |-> "TypeLiteral", members |-> members]
\* typeName is the text of the name
TypeReferenceNode(typeName, typeArguments) ==
    [kind |-> "TypeReference", typeName |-> typeName, typeArguments |-> typeArguments]
\* any other type: a function type, a conditional type, typeof, ...
OtherTypeNode == [kind |-> "OtherType"]
PropertySignature(name, questionToken, type) ==
    [kind |-> "PropertySignature", name |-> name, questionToken |-> questionToken,
     type |-> type]
MethodSignature(name) == [kind |-> "MethodSignature", name |-> name]
InterfaceDeclaration(name, members) ==
    [kind |-> "InterfaceDeclaration", name |-> Identifier(name), members |-> members]
TypeAliasDeclaration(name, type) ==
    [kind |-> "TypeAliasDeclaration", name |-> Identifier(name), type |-> type]

\* the generic names schemaFromTypeNode knows, and the place a $ref points to
RefName ==
    [Array |-> <<"A", "r", "r", "a", "y">>,
     ReadonlyArray |-> <<"R", "e", "a", "d", "o", "n", "l", "y", "A", "r", "r", "a", "y">>,
     Record |-> <<"R", "e", "c", "o", "r", "d">>,
     schemas |-> <<"#", "/", "c", "o", "m", "p", "o", "n", "e", "n", "t", "s", "/",
                   "s", "c", "h", "e", "m", "a", "s", "/">>]

\* Map.get / Map.set / Map.delete on a Map kept in insertion order
MapHas(m, k) == \E i \in 1..Len(m) : m[i].k = k
MapSet(m, k, v) ==
    IF MapHas(m, k) THEN [i \in 1..Len(m) |-> IF m[i].k = k THEN KV(k, v) ELSE m[i]]
    ELSE Append(m, KV(k, v))
MapDelete(m, k) == SelectSeq(m, LAMBDA e : e.k # k)

\* a schema (or a list of schemas) and ctx.warnings after it was made
TypeResult(schema, warnings) == [schema |-> schema, warnings |-> warnings]

\* ctx.warnings.push(`Unsupported type node: ${node.getText()}`); return {}
Unsupported(node, warnings) ==
    TypeResult(EmptySchema, Append(warnings, <<"Unsupported type node: ", node>>))

\* { $ref: `#/components/schemas/${refName}` }
RefSchema(refName) == Obj(<<KV(Keyword.ref, Str(RefName.schemas \o refName))>>)

\* const existing = ctx.namedSchemas.get(refName); if (existing) return { $ref }
ResolveReference(node, namedSchemas, warnings) ==
    IF MapHas(namedSchemas, node.typeName)
    THEN TypeResult(RefSchema(node.typeName), warnings)
    ELSE Unsupported(node, warnings)

ArrayOf(items) ==
    TypeResult(Obj(<<KV(Keyword.type, Str(TypeName.array)), KV(Keyword.items, items.schema)>>),
               items.warnings)
RecordOf(value) ==
    TypeResult(Obj(<<KV(Keyword.type, Str(TypeName.object)),
                     KV(Keyword.additionalProperties, value.schema)>>),
               value.warnings)
TupleOf(items) == TypeResult(TupleSchema(items.schema), items.warnings)
ListOf(keyword, list) == TypeResult(Obj(<<KV(keyword, Arr(list.schema))>>), list.warnings)

RECURSIVE schemaFromTypeNode(_, _, _)

\* nodes.map(node => schemaFromTypeNode(node, ctx) ?? {})
RECURSIVE MapTypeNodes(_, _, _, _, _)
MapTypeNodes(nodes, namedSchemas, warnings, i, acc) ==
    IF i > Len(nodes) THEN TypeResult(acc, warnings)
    ELSE LET push(r) ==
                 MapTypeNodes(nodes, namedSchemas, r.warnings, i + 1, Append(acc, r.schema))
         IN  push(schemaFromTypeNode(nodes[i], namedSchemas, warnings))

\* the loop of schemaFromInterface
RECURSIVE MembersLoop(_, _, _, _, _, _)
MembersLoop(members, namedSchemas, warnings, i, properties, required) ==
    IF i > Len(members) THEN TypeResult(ObjectSchema(properties, required), warnings)
    ELSE LET member == members[i]
             key == IF member.kind = "PropertySignature" THEN propertyNameText(member.name)
                    ELSE <<>>
             add(r) ==
                 MembersLoop(members, namedSchemas, r.warnings, i + 1,
                             ObjSet(properties, key, r.schema),
                             IF member.questionToken THEN required
                             ELSE Append(required, Str(key)))
         IN  IF key = <<>> \/ member.type = NoNode
             THEN MembersLoop(members, namedSchemas, warnings, i + 1, properties, required)
             ELSE add(schemaFromTypeNode(member.type, namedSchemas, warnings))

schemaFromInterface(node, namedSchemas, warnings) ==
    MembersLoop(node.members, namedSchemas, warnings, 1, <<>>, <<>>)

schemaFromTypeNode(node, namedSchemas, warnings) ==
    CASE node.kind = "StringKeyword" -> TypeResult(TypeSchema(TypeName.string), warnings)
      [] node.kind = "NumberKeyword" -> TypeResult(TypeSchema(TypeName.number), warnings)
      [] node.kind = "BooleanKeyword" -> TypeResult(TypeSchema(TypeName.boolean), warnings)
      [] node.kind \in {"AnyKeyword", "UnknownKeyword"} -> TypeResult(EmptySchema, warnings)
      [] node.kind = "NullKeyword" -> TypeResult(TypeSchema(TypeName.null), warnings)
      [] node.kind = "ObjectKeyword" -> TypeResult(TypeSchema(TypeName.object), warnings)
      [] node.kind = "LiteralType" ->
           IF node.literal.kind \in {"StringLiteral", "NumericLiteral", "TrueKeyword",
                                     "FalseKeyword"}
           THEN TypeResult(LiteralSchema(node.literal), warnings)
           ELSE Unsupported(node, warnings)
      [] node.kind = "ArrayType" ->
           ArrayOf(schemaFromTypeNode(node.elementType, namedSchemas, warnings))
      [] node.kind = "TupleType" ->
           TupleOf(MapTypeNodes(node.elements, namedSchemas, warnings, 1, <<>>))
      [] node.kind = "UnionType" ->
           ListOf(Keyword.oneOf, MapTypeNodes(node.types, namedSchemas, warnings, 1, <<>>))
      [] node.kind = "IntersectionType" ->
           ListOf(Keyword.allOf, MapTypeNodes(node.types, namedSchemas, warnings, 1, <<>>))
      [] node.kind = "TypeLiteral" -> schemaFromInterface(node, namedSchemas, warnings)
      [] node.kind = "TypeReference" ->
           IF node.typeName \in {RefName.Array, RefName.ReadonlyArray}
           THEN IF Len(node.typeArguments) >= 1
                THEN ArrayOf(schemaFromTypeNode(node.typeArguments[1], namedSchemas, warnings))
                ELSE ArrayOf(TypeResult(EmptySchema, warnings))
           ELSE IF node.typeName = RefName.Record
           THEN IF Len(node.typeArguments) >= 2
                THEN RecordOf(schemaFromTypeNode(node.typeArguments[2], namedSchemas, warnings))
                ELSE RecordOf(TypeResult(EmptySchema, warnings))
           ELSE ResolveReference(node, namedSchemas, warnings)
      [] OTHER -> Unsupported(node, warnings)

\* ctx after the walk over the statements of the file
RECURSIVE WalkDeclarations(_, _, _)
WalkDeclarations(statements, i, ctx) ==
    IF i > Len(statements) THEN ctx
    ELSE LET stmt == statements[i]
             set(r) ==
                 WalkDeclarations(statements, i + 1,
                     [namedSchemas |-> MapSet(ctx.namedSchemas, stmt.name.text, r.schema),
                      warnings |-> r.warnings])
         IN  CASE stmt.kind = "InterfaceDeclaration" ->
                    set(schemaFromInterface(stmt, ctx.namedSchemas, ctx.warnings))
               [] stmt.kind = "TypeAliasDeclaration" ->
                    set(schemaFromTypeNode(stmt.type, ctx.namedSchemas, ctx.warnings))
               [] OTHER -> WalkDeclarations(statements, i + 1, ctx)

\* the zod schemas first, then the named schemas no zod schema has replaced
RECURSIVE DeleteAll(_, _, _)
DeleteAll(namedSchemas, zodSchemas, i) ==
    IF i > Len(zodSchemas) THEN namedSchemas
    ELSE DeleteAll(MapDelete(namedSchemas, zodSchemas[i].k), zodSchemas, i + 1)
MergeZod(zodSchemas, namedSchemas) ==
    Spread(Spread(<<>>, zodSchemas, 1), DeleteAll(namedSchemas, zodSchemas, 1), 1)

DtsParseResult(schemas, warnings) == [schemas |-> schemas, warnings |-> warnings]
\* if (Object.keys(schemas).length === 0) warnings.push(...)
Parsed(schemas, warnings) ==
    DtsParseResult(schemas,
                   IF schemas = <<>> THEN Append(warnings, <<"No schemas parsed from d.ts.">>)
                   ELSE warnings)

parseDtsSource(source, tsLoads) ==
    IF ~tsLoads
    THEN DtsParseResult(<<>>, <<<<"TypeScript parser not available; d.ts parsing skipped.">>>>)
    ELSE LET finish(ctx) ==
                 Parsed(MergeZod(mapZodSchemas(source, tsLoads), ctx.namedSchemas),
                        ctx.warnings)
         IN  finish(WalkDeclarations(source.statements, 1,
                                     [namedSchemas |-> <<>>, warnings |-> <<>>]))

\* parseDtsFile: a file is its label, whether its text is blank, and its tree
DtsFile(label, blank, source) == [label |-> label, blank |-> blank, source |-> source]
Prepend(warnings, r) == DtsParseResult(r.schemas, warnings \o r.warnings)
parseDtsFile(file, tsLoads) ==
    Prepend(IF file.blank THEN <<<<"Empty d.ts file.">>>> ELSE <<>>,
            parseDtsSource(file.source, tsLoads))

\* a merge that says nothing of an override
RECURSIVE MergeFileSilently(_, _, _, _)
MergeFileSilently(state, label, entries, i) ==
    IF i > Len(entries) THEN state
    ELSE MergeFileSilently(
             [schemas |-> ObjSet(state.schemas, entries[i].k, entries[i].v),
              warnings |-> state.warnings],
             label, entries, i + 1)

\* for (const [name, schema] of Object.entries(result.schemas)) { ... }
RECURSIVE MergeFile(_, _, _, _)
MergeFile(state, label, entries, i) ==
    IF i > Len(entries) THEN state
    ELSE MergeFile(
             [schemas |-> ObjSet(state.schemas, entries[i].k, entries[i].v),
              warnings |->
                  IF \E j \in 1..Len(state.schemas) : state.schemas[j].k = entries[i].k
                  THEN Append(state.warnings,
                              <<label, ": schema ", entries[i].k,
                                " overrides an existing definition">>)
                  ELSE state.warnings],
             label, entries, i + 1)

\* warnings.push(...result.warnings.map(w => `${label}: ${w}`)), then the merge
Labelled(label, ws) == [i \in 1..Len(ws) |-> <<label, ": ">> \o ws[i]]
ImportFile(state, label, r) ==
    MergeFile([schemas |-> state.schemas,
               warnings |-> state.warnings \o Labelled(label, r.warnings)],
              label, r.schemas, 1)

(***************************************************************************)
(* Declaration files considered                                            *)
(***************************************************************************)
\* greatest number of files picked for one import
MaxFiles == 3

StringType == KeywordTypeNode("StringKeyword")
NumberType == KeywordTypeNode("NumberKeyword")
Ref(name) == TypeReferenceNode(name, <<>>)
Member(name, type) == PropertySignature(Identifier(name), FALSE, type)
OptionalMember(name, type) == PropertySignature(Identifier(name), TRUE, type)

\* the types given to the alias C
AliasedTypes ==
    {StringType, KeywordTypeNode("BooleanKeyword"), KeywordTypeNode("AnyKeyword"),
     KeywordTypeNode("NullKeyword"), KeywordTypeNode("ObjectKeyword"),
     LiteralTypeNode(StringLiteral(n_a)), LiteralTypeNode(N(1)),
     LiteralTypeNode(FalseKeyword), LiteralTypeNode(NullKeyword),
     Ref(n_A), Ref(n_C), Ref(n_foo),
     ArrayTypeNode(Ref(n_B)),
     TypeReferenceNode(RefName.Array, <<Ref(n_A)>>),
     TypeReferenceNode(RefName.ReadonlyArray, <<>>),
     TypeReferenceNode(RefName.Record, <<StringType, Ref(n_B)>>),
     TypeReferenceNode(RefName.Record, <<>>),
     TupleTypeNode(<<StringType, Ref(n_A), OtherTypeNode>>),
     UnionTypeNode(<<Ref(n_A), Ref(n_B), KeywordTypeNode("UnknownKeyword")>>),
     IntersectionTypeNode(<<Ref(n_A), TypeLiteralNode(<<Member(n_f, NumberType)>>)>>),
     TypeLiteralNode(<<Member(n_id, StringType), OptionalMember(n_name, Ref(n_C))>>),
     OtherTypeNode}

DtsStatements ==
    {InterfaceDeclaration(n_A, <<Member(n_id, StringType)>>),
     InterfaceDeclaration(n_A, <<OptionalMember(n_name, StringType), Member(n_f, Ref(n_A))>>),
     InterfaceDeclaration(n_A, <<Member(n_id, NumberType), Member(n_f, Ref(n_B))>>),
     InterfaceDeclaration(n_B,
         <<Member(n_f, Ref(n_A)), MethodSignature(Identifier(n_k)),
           PropertySignature(StringLiteral(n_name), TRUE, NumberType),
           PropertySignature(ComputedPropertyName, FALSE, StringType),
           PropertySignature(Identifier(n_id), FALSE, NoNode)>>),
     TypeAliasDeclaration(n_B, Ref(n_A)),
     TypeAliasDeclaration(n_B, UnionTypeNode(<<StringType, ArrayTypeNode(Ref(n_B))>>)),
     VariableStatement(TRUE, <<ZodDecl(n_A, ObjectA)>>),
     VariableStatement(TRUE, <<ZodDecl(n_B, Id(n_A))>>),
     VariableStatement(TRUE, <<ZodDecl(n_B, Id(n_foo))>>),
     ExportAssignment(Id(n_A)),
     TypeAliasDeclaration(n_C, Ref(n_A)),
     TypeAliasDeclaration(n_C, Ref(n_C)),
     TypeAliasDeclaration(n_C, Ref(n_foo))}

RECURSIVE StatementLists(_)
StatementLists(n) ==
    IF n = 0 THEN {<<>>}
    ELSE StatementLists(n - 1)
         \cup {Append(s, d) : s \in {t \in StatementLists(n - 1) : Len(t) = n - 1},
                              d \in DtsStatements}

\* every list of statements, and every aliased type after and before the
\* declaration of A
DtsSources ==
    {SourceFile(s) : s \in StatementLists(MaxDeclarations)}
    \cup {SourceFile(<<InterfaceDeclaration(n_A, <<Member(n_id, StringType)>>),
                       TypeAliasDeclaration(n_C, t)>>) : t \in AliasedTypes}
    \cup {SourceFile(<<TypeAliasDeclaration(n_C, t),
                       InterfaceDeclaration(n_A, <<Member(n_id, StringType)>>)>>) :
              t \in AliasedTypes}

\* the files of an import: empty ones, and files that declare A and B
\* again, by a type and by a zod schema
FileSources ==
    {SourceFile(<<>>),
     SourceFile(<<InterfaceDeclaration(n_A, <<Member(n_id, StringType)>>)>>),
     SourceFile(<<InterfaceDeclaration(n_A, <<Member(n_f, Ref(n_A))>>),
                  TypeAliasDeclaration(n_B, Ref(n_A))>>),
     SourceFile(<<TypeAliasDeclaration(n_B, Ref(n_foo))>>),
     SourceFile(<<TypeAliasDeclaration(n_A, StringType),
                  VariableStatement(TRUE, <<ZodDecl(n_A, ObjectA)>>)>>),
     SourceFile(<<VariableStatement(TRUE, <<ZodDecl(n_B, ZString)>>),
                  TypeAliasDeclaration(n_C, NumberType)>>)}

\* the label of the i-th file picked
LabelOf(i) == <<"f", "i", "l", "e">> \o NatToString(i) \o <<".", "d", ".", "t", "s">>

RECURSIVE FileLists(_)
FileLists(n) ==
    IF n = 0 THEN {<<>>}
    ELSE FileLists(n - 1)
         \cup {Append(fs, f) : fs \in {t \in FileLists(n - 1) : Len(t) = n - 1},
                               f \in {DtsFile(LabelOf(n), FALSE, s) : s \in FileSources}
                                      \cup {DtsFile(LabelOf(n), TRUE, SourceFile(<<>>))}}

(***************************************************************************)
(* Entries of a Vite config (scan/entries.ts): the text scanner.  A text   *)
(* is 1-indexed here, and 0 stands for the index -1 and for no match.      *)
(***************************************************************************)
Word ==
    [mokup |-> <<"m", "o", "k", "u", "p">>,
     entries |-> <<"e", "n", "t", "r", "i", "e", "s">>,
     dir |-> <<"d", "i", "r">>,
     prefix |-> <<"p", "r", "e", "f", "i", "x">>,
     watch |-> <<"w", "a", "t", "c", "h">>,
     mode |-> <<"m", "o", "d", "e">>,
     true |-> <<"t", "r", "u", "e">>,
     false |-> <<"f", "a", "l", "s", "e">>,
     server |-> <<"s", "e", "r", "v", "e", "r">>,
     sw |-> <<"s", "w">>,
     defineConfig |-> <<"d", "e", "f", "i", "n", "e", "C", "o", "n", "f", "i", "g">>,
     path |-> <<"p", "a", "t", "h">>,
     resolve |-> <<"r", "e", "s", "o", "l", "v", "e">>,
     join |-> <<"j", "o", "i", "n">>]

\* \s, \w and the three quotes
IsSpace(c) == c \in {" ", "\t", "\n", "\r"}
IsWordChar(c) ==
    c \in {"a", "b", "c", "d", "e", "f", "g", "h", "i", "j", "k", "l", "m", "n", "o", "p",
           "q", "r", "s", "t", "u", "v", "w", "x", "y", "z", "A", "B", "C", "D", "E", "F",
           "G", "H", "I", "J", "K", "L", "M", "N", "O", "P", "Q", "R", "S", "T", "U", "V",
           "W", "X", "Y", "Z", "0", "1", "2", "3", "4", "5", "6", "7", "8", "9", "_"}
\* the character U+0060, which a string of this language cannot hold
Backtick == "U+0060"
IsQuote(c) == c \in {"'", "\"", Backtick}

\* the least index of a set of indices, else the default
FirstIn(indices, default) ==
    IF indices = {} THEN default ELSE CHOOSE i \in indices : \A j \in indices : i <= j

\* content[i], content.slice(a, b) for 1-indexed a and exclusive b, trim, startsWith
CharAt(content, i) == IF i >= 1 /\ i <= Len(content) THEN content[i] ELSE ""
Slice(content, a, b) == SubSeq(content, a, b - 1)
skipWhitespace(content, index) ==
    FirstIn({i \in index..Len(content) : ~IsSpace(content[i])},
            IF index > Len(content) THEN index ELSE Len(content) + 1)
Trim(s) ==
    SubSeq(s, skipWhitespace(s, 1),
           Len(s) - FirstIn({k \in 0..(Len(s) - 1) : ~IsSpace(s[Len(s) - k])}, Len(s)))
StartsWith(s, c) == CharAt(s, 1) = c

\* the word stands at i, after a word boundary
WordAt(content, i, word) ==
    /\ i + Len(word) - 1 <= Len(content)
    /\ SubSeq(content, i, i + Len(word) - 1) = word
    /\ ~IsWordChar(CharAt(content, i - 1))
\* /\bword\b/.test(value)
ContainsWord(value, word) ==
    \E i \in 1..Len(value) :
        WordAt(value, i, word) /\ ~IsWordChar(CharAt(value, i + Len(word)))
\* /\bword\s*[marks]\s*/ at i: the index after the match, the index of the
\* mark itself when nothing is skipped after it, and 0 for no match
MatchKeyAt(content, i, word, marks, skipAfter) ==
    IF WordAt(content, i, word)
       /\ CharAt(content, skipWhitespace(content, i + Len(word))) \in marks
    THEN IF skipAfter
         THEN skipWhitespace(content, skipWhitespace(content, i + Len(word)) + 1)
         ELSE skipWhitespace(content, i + Len(word))
    ELSE 0
\* re.exec from lastIndex: where the next match begins, 0 when there is none
NextMatch(content, from, word, marks) ==
    FirstIn({i \in from..Len(content) : MatchKeyAt(content, i, word, marks, FALSE) # 0}, 0)

\* the string state of the scanners: the open quote, and whether the last
\* character was a backslash
Outside == [inString |-> "", escape |-> FALSE]
\* the character is taken by the string handling (the two blocks ending in continue)
InStringOrQuote(st, ch) == st.inString # "" \/ IsQuote(ch)
AfterChar(st, ch) ==
    IF st.inString # ""
    THEN IF st.escape THEN [inString |-> st.inString, escape |-> FALSE]
         ELSE IF ch = "\\" THEN [inString |-> st.inString, escape |-> TRUE]
         ELSE IF ch = st.inString THEN Outside
         ELSE st
    ELSE IF IsQuote(ch) THEN [inString |-> ch, escape |-> st.escape]
    ELSE st

\* The bodies of the scanning loops.  A loop's state holds its local
\* variables, and in end the index at which it returned, 0 while it runs.
FindMatchingBody(content, loop, s, i) ==
    IF InStringOrQuote(s.st, content[i]) THEN [s EXCEPT !.st = AfterChar(s.st, content[i])]
    ELSE IF content[i] = loop.openChar THEN [s EXCEPT !.depth = @ + 1]
    ELSE IF content[i] = loop.closeChar
    THEN IF s.depth - 1 = 0 THEN [s EXCEPT !.depth = @ - 1, !.end = i]
         ELSE [s EXCEPT !.depth = @ - 1]
    ELSE s
FindStringEndBody(content, loop, s, i) ==
    IF s.escape THEN [s EXCEPT !.escape = FALSE]
    ELSE IF content[i] = "\\" THEN [s EXCEPT !.escape = TRUE]
    ELSE IF content[i] = loop.quote THEN [s EXCEPT !.end = i]
    ELSE s
ExtractFirstArgBody(args, s, i) ==
    IF InStringOrQuote(s.st, args[i]) THEN [s EXCEPT !.st = AfterChar(s.st, args[i])]
    ELSE IF args[i] \in {"(", "[", "{"} THEN [s EXCEPT !.depth = @ + 1]
    ELSE IF args[i] \in {")", "]", "}"} THEN [s EXCEPT !.depth = @ - 1]
    ELSE IF args[i] = "," /\ s.depth = 0 THEN [s EXCEPT !.end = i]
    ELSE s
SplitTopLevelItemsBody(arrayLiteral, s, i) ==
    IF InStringOrQuote(s.st, arrayLiteral[i])
    THEN [s EXCEPT !.st = AfterChar(s.st, arrayLiteral[i]), !.current = Append(@, arrayLiteral[i])]
    ELSE IF arrayLiteral[i] \in {"[", "{", "("}
    THEN [s EXCEPT !.depth = @ + 1, !.current = Append(@, arrayLiteral[i])]
    ELSE IF arrayLiteral[i] \in {"]", "}", ")"}
    THEN [s EXCEPT !.depth = @ - 1, !.current = Append(@, arrayLiteral[i])]
    ELSE IF arrayLiteral[i] = "," /\ s.depth = 0
    THEN [s EXCEPT !.items = Append(@, Trim(s.current)), !.current = <<>>]
    ELSE [s EXCEPT !.current = Append(@, arrayLiteral[i])]
ExtractValueSliceBody(objectLiteral, s, i) ==
    IF InStringOrQuote(s.st, objectLiteral[i])
    THEN [s EXCEPT !.st = AfterChar(s.st, objectLiteral[i])]
    ELSE IF objectLiteral[i] = "}" /\ s.depthBrace = 0 THEN [s EXCEPT !.end = i]
    ELSE IF objectLiteral[i] = "," /\ s.depthParen = 0 /\ s.depthBracket = 0 /\ s.depthBrace = 0
    THEN [s EXCEPT !.end = i]
    ELSE CASE objectLiteral[i] = "(" -> [s EXCEPT !.depthParen = @ + 1]
           [] objectLiteral[i] = ")" -> [s EXCEPT !.depthParen = @ - 1]
           [] objectLiteral[i] = "[" -> [s EXCEPT !.depthBracket = @ + 1]
           [] objectLiteral[i] = "]" -> [s EXCEPT !.depthBracket = @ - 1]
           [] objectLiteral[i] = "{" -> [s EXCEPT !.depthBrace = @ + 1]
           [] objectLiteral[i] = "}" -> [s EXCEPT !.depthBrace = @ - 1]
           [] OTHER -> s
LoopBody(loop, text, s, i) ==
    IF s.end # 0 THEN s
    ELSE CASE loop.of = "findMatching" -> FindMatchingBody(text, loop, s, i)
           [] loop.of = "findStringEnd" -> FindStringEndBody(text, loop, s, i)
           [] loop.of = "extractFirstArg" -> ExtractFirstArgBody(text, s, i)
           [] loop.of = "splitTopLevelItems" -> SplitTopLevelItemsBody(text, s, i)
           [] loop.of = "extractValueSlice" -> ExtractValueSliceBody(text, s, i)
\* for (let i = lo; i <= hi; i++) s = LoopBody(s, i), until the loop returns:
\* the first half of the indices, then the second
RECURSIVE ForEachIndex(_, _, _, _, _)
ForEachIndex(loop, text, s, lo, hi) ==
    IF s.end # 0 \/ lo > hi THEN s
    ELSE IF lo = hi THEN LoopBody(loop, text, s, lo)
    ELSE ForEachIndex(loop, text, ForEachIndex(loop, text, s, lo, (lo + hi) \div 2),
                      (lo + hi) \div 2 + 1, hi)

findMatching(content, start, closeChar) ==
    ForEachIndex([of |-> "findMatching", openChar |-> CharAt(content, start), closeChar |-> closeChar],
                 content, [depth |-> 0, st |-> Outside, end |-> 0], start, Len(content)).end
findStringEnd(content, start) ==
    ForEachIndex([of |-> "findStringEnd", quote |-> CharAt(content, start)],
                 content, [escape |-> FALSE, end |-> 0], start + 1, Len(content)).end

\* the first argument, trimmed; the empty text for null
FirstArgUpTo(args, end) == Trim(Slice(args, 1, IF end = 0 THEN Len(args) + 1 ELSE end))
extractFirstArg(args) ==
    FirstArgUpTo(args, ForEachIndex([of |-> "extractFirstArg"], args,
                                    [depth |-> 0, st |-> Outside, end |-> 0], 1, Len(args)).end)

\* the loop of findMokupPluginOptionBlocks over the matches of /\bmokup\s*\(/g
RECURSIVE PluginBlocksFrom(_, _, _)
PluginBlocksFrom(content, lastIndex, blocks) ==
    LET at == NextMatch(content, lastIndex, Word.mokup, {"("})
        callStart == MatchKeyAt(content, at, Word.mokup, {"("}, FALSE)
        callEnd == findMatching(content, callStart, ")")
        firstArg == extractFirstArg(Slice(content, callStart + 1, callEnd))
    IN  IF at = 0 THEN blocks
        ELSE PluginBlocksFrom(content, callStart + 1,
                 IF callEnd # 0 /\ StartsWith(firstArg, "{") THEN Append(blocks, firstArg)
                 ELSE blocks)
findMokupPluginOptionBlocks(content) == PluginBlocksFrom(content, 1, <<>>)

\* the loop of findEntriesBlocks over the matches of /\bentries\s*[:=]\s*/g
RECURSIVE EntriesBlocksFrom(_, _, _)
EntriesBlocksFrom(content, lastIndex, blocks) ==
    LET at == NextMatch(content, lastIndex, Word.entries, {":", "="})
        start == MatchKeyAt(content, at, Word.entries, {":", "="}, TRUE)
        ch == CharAt(content, start)
        end == IF ch \in {"[", "{"} THEN findMatching(content, start, IF ch = "[" THEN "]" ELSE "}")
               ELSE IF IsQuote(ch) THEN findStringEnd(content, start)
               ELSE 0
    IN  IF at = 0 THEN blocks
        ELSE EntriesBlocksFrom(content, start,
                 IF end # 0 THEN Append(blocks, Slice(content, start, end + 1)) ELSE blocks)
findEntriesBlocks(content) == EntriesBlocksFrom(content, 1, <<>>)
\* a MokupEntry of parseEntryObject and parseEntriesStaticValue, and the
\* { dir } made from a string
Entry(dir, prefix, watch, mode) ==
    Obj(<<KV(Word.dir, dir), KV(Word.prefix, prefix), KV(Word.watch, watch), KV(Word.mode, mode)>>)
DirEntry(dir) == Obj(<<KV(Word.dir, dir)>>)
\* an EntriesParseResult, also the entries of a call and the warnings after it
EntriesParseResult(entries, warnings) == [entries |-> entries, warnings |-> warnings]

ItemsAfter(s) == IF Trim(s.current) # <<>> THEN Append(s.items, Trim(s.current)) ELSE s.items
splitTopLevelItems(arrayLiteral) ==
    ItemsAfter(ForEachIndex([of |-> "splitTopLevelItems"], arrayLiteral,
                   [depth |-> 0, current |-> <<>>, st |-> Outside, items |-> <<>>, end |-> 0],
                   1, Len(arrayLiteral)))

\* the value from start on, up to where the loop returned
ValueSliceUpTo(objectLiteral, start, end) ==
    Trim(Slice(objectLiteral, start, IF end = 0 THEN Len(objectLiteral) + 1 ELSE end))
ValueSliceFrom(objectLiteral, start) ==
    ValueSliceUpTo(objectLiteral, start,
        ForEachIndex([of |-> "extractValueSlice"], objectLiteral,
            [depthParen |-> 0, depthBracket |-> 0, depthBrace |-> 0, st |-> Outside, end |-> 0],
            start, Len(objectLiteral)).end)
\* the value after the first `key:`; the empty text for null
ValueSliceAt(objectLiteral, at, key) ==
    IF at = 0 THEN <<>>
    ELSE ValueSliceFrom(objectLiteral, MatchKeyAt(objectLiteral, at, key, {":"}, TRUE))
extractValueSlice(objectLiteral, key) ==
    ValueSliceAt(objectLiteral, NextMatch(objectLiteral, 1, key, {":"}), key)

\* the index of the next quote character from i on, 0 when there is none
NextQuote(value, i) == FirstIn({j \in i..Len(value) : IsQuote(value[j])}, 0)
\* /(['"`])([^'"`]+)\1/ matches at p: the index of the closing quote, else 0
StringLiteralAt(value, p) ==
    IF IsQuote(CharAt(value, p))
       /\ NextQuote(value, p + 1) > p + 1
       /\ value[NextQuote(value, p + 1)] = value[p]
    THEN NextQuote(value, p + 1)
    ELSE 0
\* the loop over the matches, from lastIndex on
RECURSIVE StringLiteralsFrom(_, _, _)
StringLiteralsFrom(value, lastIndex, results) ==
    LET Matched(p) ==
            IF p = 0 THEN results
            ELSE StringLiteralsFrom(value, StringLiteralAt(value, p) + 1,
                     Append(results, Slice(value, p + 1, StringLiteralAt(value, p))))
    IN  Matched(FirstIn({p \in lastIndex..Len(value) : StringLiteralAt(value, p) # 0}, 0))
extractStringLiterals(value) == StringLiteralsFrom(value, 1, <<>>)

parseBooleanLiteral(value) ==
    IF ContainsWord(value, Word.true) THEN Bool(TRUE)
    ELSE IF ContainsWord(value, Word.false) THEN Bool(FALSE)
    ELSE Undefined
parseModeLiteral(value) ==
    IF ContainsWord(value, Word.server) THEN Str(Word.server)
    ELSE IF ContainsWord(value, Word.sw) THEN Str(Word.sw)
    ELSE Undefined
\* the text of the literal the value begins with; the empty text for null
parseStringLiteral(value) ==
    IF StringLiteralAt(Trim(value), 1) # 0
    THEN Slice(Trim(value), 2, StringLiteralAt(Trim(value), 1))
    ELSE <<>>

\* extractStringLiterals(prefixValue)[0]
FirstOf(literals) == IF literals = <<>> THEN Undefined ELSE Str(literals[1])
EntriesOfDirs(dirs, prefix, watch, mode) ==
    [i \in 1..Len(dirs) |-> Entry(Str(dirs[i]), prefix, watch, mode)]
parseEntryObject(objectLiteral, warnings) ==
    IF extractStringLiterals(extractValueSlice(objectLiteral, Word.dir)) = <<>>
    THEN EntriesParseResult(<<>>,
             Append(warnings, <<"Entry object has no string dir literal, skipping.">>))
    ELSE EntriesParseResult(
             EntriesOfDirs(extractStringLiterals(extractValueSlice(objectLiteral, Word.dir)),
                           FirstOf(extractStringLiterals(extractValueSlice(objectLiteral, Word.prefix))),
                           parseBooleanLiteral(extractValueSlice(objectLiteral, Word.watch)),
                           parseModeLiteral(extractValueSlice(objectLiteral, Word.mode))),
             warnings)

\* the loop of parseEntriesArray over the items
RECURSIVE ArrayItems(_, _, _, _)
ArrayItems(items, i, results, warnings) ==
    IF i > Len(items) THEN EntriesParseResult(results, warnings)
    ELSE IF Trim(items[i]) = <<>> THEN ArrayItems(items, i + 1, results, warnings)
    ELSE IF StartsWith(Trim(items[i]), "{")
    THEN LET Rest(parsed) == ArrayItems(items, i + 1, results \o parsed.entries, parsed.warnings)
         IN  Rest(parseEntryObject(Trim(items[i]), warnings))
    ELSE IF StartsWith(Trim(items[i]), "[")
    THEN ArrayItems(items, i + 1, results,
             Append(warnings, <<"Nested array entries are not supported, skipping.">>))
    ELSE IF parseStringLiteral(Trim(items[i])) # <<>>
    THEN ArrayItems(items, i + 1,
             Append(results, DirEntry(Str(parseStringLiteral(Trim(items[i]))))), warnings)
    ELSE ArrayItems(items, i + 1, results,
             Append(warnings, <<"Array entry is not a string/object literal, skipping.">>))
parseEntriesArray(arrayLiteral, warnings) ==
    ArrayItems(splitTopLevelItems(Slice(Trim(arrayLiteral), 2, Len(Trim(arrayLiteral)))),
               1, <<>>, warnings)

parseEntriesBlock(block, warnings) ==
    IF Trim(block) = <<>> THEN EntriesParseResult(<<>>, warnings)
    ELSE IF StartsWith(Trim(block), "[") THEN parseEntriesArray(Trim(block), warnings)
    ELSE IF StartsWith(Trim(block), "{") THEN parseEntryObject(Trim(block), warnings)
    ELSE IF IsQuote(CharAt(Trim(block), 1))
    THEN EntriesParseResult(
             IF parseStringLiteral(Trim(block)) # <<>>
             THEN <<DirEntry(Str(parseStringLiteral(Trim(block))))>> ELSE <<>>,
             warnings)
    ELSE EntriesParseResult(<<>>,
             Append(warnings, <<"Entries value is not a literal array/object/string, skipped.">>))

(***************************************************************************)
(* Entries of a Vite config (scan/entries.ts): the syntax tree path        *)
(***************************************************************************)
SpreadElement(e) == [kind |-> "SpreadElement", expression |-> e]

\* a StaticValue (or undefined), and the warnings after it was made
Static(value, warnings) == [value |-> value, warnings |-> warnings]
\* env.get(name) on the Map of const bindings
StaticGet(env, name) ==
    IF MapHas(env, name) THEN env[CHOOSE i \in 1..Len(env) : env[i].k = name].v ELSE Undefined

getPropertyKey(name) ==
    IF name.kind \in {"Identifier", "StringLiteral", "NumericLiteral"} THEN name.text ELSE <<>>

\* process.cwd(), any absolute directory
Cwd == <<"/", "w">>
\* path.join and path.resolve of node:path, on segments that are plain
\* relative names (no dot segments, no slashes at their ends)
PathJoin(args) ==
    IF SelectSeq(args, LAMBDA a : a # <<>>) = <<>> THEN <<".">>
    ELSE Join(SelectSeq(args, LAMBDA a : a # <<>>), <<"/">>)
PathResolve(args) == Join(<<Cwd>> \o SelectSeq(args, LAMBDA a : a # <<>>), <<"/">>)

RECURSIVE evalStaticExpression(_, _, _)
RECURSIVE TemplateParts(_, _, _, _, _)
RECURSIVE ArrayElements(_, _, _, _, _)
RECURSIVE ObjectProperties(_, _, _, _, _)
RECURSIVE PathArguments(_, _, _, _, _)

\* the loop over node.templateSpans
TemplateParts(spans, i, env, parts, warnings) ==
    IF i > Len(spans) THEN Static(Str(parts), warnings)
    ELSE LET Part(expr) ==
                 IF expr.value.t \notin {"string", "number"}
                 THEN Static(Undefined,
                          Append(expr.warnings, <<"Template expression contains non-static value.">>))
                 ELSE TemplateParts(spans, i + 1, env,
                          parts \o JsString(expr.value) \o spans[i].literal, expr.warnings)
         IN  Part(evalStaticExpression(spans[i].expression, env, warnings))

\* the loop over node.elements
ArrayElements(elements, i, env, items, warnings) ==
    IF i > Len(elements) THEN Static(Arr(items), warnings)
    ELSE IF elements[i].kind = "SpreadElement"
    THEN ArrayElements(elements, i + 1, env, items,
             Append(warnings, <<"Spread elements in entries are not supported.">>))
    ELSE LET Element(e) ==
                 IF e.value = Undefined
                 THEN ArrayElements(elements, i + 1, env, items,
                          Append(e.warnings, <<"Array element is not a static value.">>))
                 ELSE ArrayElements(elements, i + 1, env, Append(items, e.value), e.warnings)
         IN  Element(evalStaticExpression(elements[i], env, warnings))

\* the loop over node.properties
ObjectProperties(properties, i, env, obj, warnings) ==
    IF i > Len(properties) THEN Static(Obj(obj), warnings)
    ELSE IF properties[i].kind = "PropertyAssignment"
    THEN IF getPropertyKey(properties[i].name) = <<>>
         THEN ObjectProperties(properties, i + 1, env, obj, warnings)
         ELSE LET Property(e) ==
                      ObjectProperties(properties, i + 1, env,
                          IF e.value # Undefined
                          THEN ObjSet(obj, getPropertyKey(properties[i].name), e.value)
                          ELSE obj,
                          e.warnings)
              IN  Property(evalStaticExpression(properties[i].initializer, env, warnings))
    ELSE IF properties[i].kind = "ShorthandPropertyAssignment"
    THEN ObjectProperties(properties, i + 1, env,
             IF StaticGet(env, properties[i].name.text) # Undefined
             THEN ObjSet(obj, properties[i].name.text, StaticGet(env, properties[i].name.text))
             ELSE obj,
             warnings)
    ELSE ObjectProperties(properties, i + 1, env, obj,
             Append(warnings, <<"Unsupported object literal property in entries.">>))

\* the loop over node.arguments of path.resolve and path.join
PathArguments(node, i, env, args, warnings) ==
    IF i > Len(node.arguments)
    THEN Static(Str(IF node.expression.name.text = Word.resolve THEN PathResolve(args)
                    ELSE PathJoin(args)),
                warnings)
    ELSE LET Argument(e) ==
                 IF e.value = Undefined
                 THEN Static(Undefined,
                          Append(e.warnings, <<"path.resolve/join contains non-static value.">>))
                 ELSE PathArguments(node, i + 1, env, Append(args, JsString(e.value)), e.warnings)
         IN  Argument(evalStaticExpression(node.arguments[i], env, warnings))

evalPathCall(node, env, warnings) ==
    IF node.expression.kind # "PropertyAccessExpression" THEN Static(Undefined, warnings)
    ELSE IF node.expression.name.text \notin {Word.resolve, Word.join}
    THEN Static(Undefined, warnings)
    ELSE IF node.expression.expression.kind # "Identifier"
            \/ node.expression.expression.text # Word.path
    THEN Static(Undefined, warnings)
    ELSE PathArguments(node, 1, env, <<>>, warnings)

UnsupportedExpression(warnings) ==
    Static(Undefined, Append(warnings, <<"Unsupported expression in entries parsing.">>))

evalStaticExpression(node, env, warnings) ==
    CASE node.kind \in {"StringLiteral", "NoSubstitutionTemplateLiteral"} ->
           Static(Str(node.text), warnings)
      [] node.kind = "NumericLiteral" -> Static(StringToNumber(node.text), warnings)
      [] node.kind = "TrueKeyword" -> Static(Bool(TRUE), warnings)
      [] node.kind = "FalseKeyword" -> Static(Bool(FALSE), warnings)
      [] node.kind = "NullKeyword" -> Static(Null, warnings)
      [] node.kind = "Identifier" -> Static(StaticGet(env, node.text), warnings)
      [] node.kind = "TemplateExpression" ->
           TemplateParts(node.templateSpans, 1, env, node.head, warnings)
      [] node.kind = "BinaryExpression" ->
           IF node.operatorToken # "+" THEN UnsupportedExpression(warnings)
           ELSE LET Sum(left, right) ==
                        IF left.value = Undefined \/ right.value = Undefined
                        THEN Static(Undefined,
                                 Append(right.warnings,
                                        <<"Binary expression contains non-static value.">>))
                        ELSE Static(Str(JsString(left.value) \o JsString(right.value)),
                                    right.warnings)
                    Right(left) == Sum(left, evalStaticExpression(node.right, env, left.warnings))
                IN  Right(evalStaticExpression(node.left, env, warnings))
      [] node.kind = "ArrayLiteralExpression" ->
           ArrayElements(node.elements, 1, env, <<>>, warnings)
      [] node.kind = "ObjectLiteralExpression" ->
           ObjectProperties(node.properties, 1, env, <<>>, warnings)
      [] node.kind \in {"AsExpression", "SatisfiesExpression"} ->
           evalStaticExpression(node.expression, env, warnings)
      [] node.kind = "CallExpression" ->
           IF /\ node.expression.kind = "Identifier"
              /\ node.expression.text = Word.defineConfig
              /\ node.arguments # <<>>
           THEN evalStaticExpression(node.arguments[1], env, warnings)
           ELSE LET Called(callValue) ==
                        IF callValue.value # Undefined THEN callValue
                        ELSE UnsupportedExpression(callValue.warnings)
                IN  Called(evalPathCall(node, env, warnings))
      [] OTHER -> UnsupportedExpression(warnings)

extractDirsFromStaticValue(value) ==
    IF ~Truthy(value) THEN <<>>
    ELSE IF value.t = "string" THEN <<value>>
    ELSE IF value.t = "array" THEN SelectSeq(value.xs, LAMBDA item : item.t = "string")
    ELSE <<>>

\* entry.prefix, entry.watch, entry.mode and entry.dir
Field(entry, key) == IF HasKey(entry, key) THEN Get(entry, key) ELSE Undefined

RECURSIVE parseEntriesStaticValue(_, _)
RECURSIVE StaticItems(_, _, _, _)
\* the loop over the items of an array value
StaticItems(items, i, results, warnings) ==
    IF i > Len(items) THEN EntriesParseResult(results, warnings)
    ELSE LET Rest(parsed) == StaticItems(items, i + 1, results \o parsed.entries, parsed.warnings)
         IN  Rest(parseEntriesStaticValue(items[i], warnings))
\* the entry object itself, after its entries key gave nothing
EntryOfStaticObject(entry, warnings) ==
    IF extractDirsFromStaticValue(Field(entry, Word.dir)) = <<>>
    THEN EntriesParseResult(<<>>, Append(warnings, <<"Entry object has no static dir value.">>))
    ELSE EntriesParseResult(
             [i \in 1..Len(extractDirsFromStaticValue(Field(entry, Word.dir))) |->
                 Entry(extractDirsFromStaticValue(Field(entry, Word.dir))[i],
                       IF Field(entry, Word.prefix).t = "string" THEN Field(entry, Word.prefix)
                       ELSE Undefined,
                       IF Field(entry, Word.watch).t = "boolean" THEN Field(entry, Word.watch)
                       ELSE Undefined,
                       IF Field(entry, Word.mode) \in {Str(Word.server), Str(Word.sw)}
                       THEN Field(entry, Word.mode)
                       ELSE Undefined)],
             warnings)
parseEntriesStaticValue(value, warnings) ==
    IF value.t \in {"undefined", "null"} THEN EntriesParseResult(<<>>, warnings)
    ELSE IF value.t = "string" THEN EntriesParseResult(<<DirEntry(value)>>, warnings)
    ELSE IF value.t = "array" THEN StaticItems(value.xs, 1, <<>>, warnings)
    ELSE IF value.t = "object"
    THEN IF HasKey(value, Word.entries)
         THEN LET NestedOr(nested) ==
                      IF nested.entries # <<>> THEN nested
                      ELSE EntryOfStaticObject(value, nested.warnings)
              IN  NestedOr(parseEntriesStaticValue(Get(value, Word.entries), warnings))
         ELSE EntryOfStaticObject(value, warnings)
    ELSE EntriesParseResult(<<>>,
             Append(warnings, <<"Entries value is not a supported static type.">>))

isMokupCall(node) ==
    IF node.expression.kind = "Identifier" THEN node.expression.text = Word.mokup
    ELSE IF node.expression.kind = "PropertyAccessExpression"
    THEN node.expression.name.text = Word.mokup
    ELSE FALSE

\* the loop of collectConstBindings over the statements and their declarations
RECURSIVE ConstDeclarations(_, _, _)
ConstDeclarations(declarations, i, env) ==
    IF i > Len(declarations) THEN env
    ELSE IF declarations[i].initializer = NoNode
    THEN ConstDeclarations(declarations, i + 1, env)
    ELSE LET Bound(e) ==
                 ConstDeclarations(declarations, i + 1,
                     IF e.value # Undefined THEN MapSet(env, declarations[i].name, e.value)
                     ELSE env)
         IN  Bound(evalStaticExpression(declarations[i].initializer, env, <<>>))
RECURSIVE ConstStatements(_, _, _)
ConstStatements(statements, i, env) ==
    IF i > Len(statements) THEN env
    ELSE IF statements[i].kind = "VariableStatement" /\ statements[i].const
    THEN ConstStatements(statements, i + 1, ConstDeclarations(statements[i].declarations, 1, env))
    ELSE ConstStatements(statements, i + 1, env)
collectConstBindings(source) == ConstStatements(source.statements, 1, <<>>)

\* the children node.forEachChild visits, in order
ChildrenOf(node) ==
    CASE node.kind = "CallExpression" -> <<node.expression>> \o node.arguments
      [] node.kind = "PropertyAccessExpression" -> <<node.expression>>
      [] node.kind = "ArrayLiteralExpression" -> node.elements
      [] node.kind = "ObjectLiteralExpression" -> node.properties
      [] node.kind = "PropertyAssignment" -> <<node.initializer>>
      [] node.kind \in {"SpreadElement", "AsExpression", "ExportAssignment"} -> <<node.expression>>
      [] node.kind = "BinaryExpression" -> <<node.left, node.right>>
      [] node.kind = "VariableStatement" ->
           SelectSeq([i \in 1..Len(node.declarations) |-> node.declarations[i].initializer],
                     LAMBDA e : e # NoNode)
      [] OTHER -> <<>>
\* the walk pushing every call expression onto visits
RECURSIVE Walk(_)
RECURSIVE WalkAll(_, _)
WalkAll(nodes, i) == IF i > Len(nodes) THEN <<>> ELSE Walk(nodes[i]) \o WalkAll(nodes, i + 1)
Walk(node) ==
    (IF node.kind = "CallExpression" THEN <<node>> ELSE <<>>) \o WalkAll(ChildrenOf(node), 1)

\* the loop over visits
RECURSIVE Visits(_, _, _, _, _)
Visits(visits, i, env, entries, warnings) ==
    IF i > Len(visits) THEN EntriesParseResult(entries, warnings)
    ELSE IF ~isMokupCall(visits[i]) \/ visits[i].arguments = <<>>
    THEN Visits(visits, i + 1, env, entries, warnings)
    ELSE LET Rest(parsed) == Visits(visits, i + 1, env, entries \o parsed.entries, parsed.warnings)
             Value(e) == Rest(parseEntriesStaticValue(e.value, e.warnings))
         IN  Value(evalStaticExpression(visits[i].arguments[1], env, warnings))

parseEntriesFromViteConfigAst(source, tsLoads) ==
    IF ~tsLoads
    THEN EntriesParseResult(<<>>,
             <<<<"TypeScript parser not available; fallback to string parsing.">>>>)
    ELSE Visits(WalkAll(source.statements, 1), 1, collectConstBindings(source), <<>>, <<>>)

\* node.getText(): the text the parser was given for the node
RECURSIVE TextOf(_)
TextsOf(nodes) == [i \in 1..Len(nodes) |-> TextOf(nodes[i])]
TextOf(node) ==
    CASE node.kind = "StringLiteral" -> <<"'">> \o node.text \o <<"'">>
      [] node.kind \in {"Identifier", "NumericLiteral"} -> node.text
      [] node.kind = "TrueKeyword" -> Word.true
      [] node.kind = "FalseKeyword" -> Word.false
      [] node.kind = "ArrayLiteralExpression" ->
           <<"[">> \o Join(TextsOf(node.elements), <<",", " ">>) \o <<"]">>
      [] node.kind = "ObjectLiteralExpression" ->
           <<"{">> \o Join(TextsOf(node.properties), <<",", " ">>) \o <<"}">>
      [] node.kind = "PropertyAssignment" ->
           TextOf(node.name) \o <<":", " ">> \o TextOf(node.initializer)
      [] node.kind = "ShorthandPropertyAssignment" -> node.name.text
      [] node.kind = "SpreadElement" -> <<".", ".", ".">> \o TextOf(node.expression)
      [] node.kind = "CallExpression" ->
           TextOf(node.expression) \o <<"(">> \o Join(TextsOf(node.arguments), <<",", " ">>)
               \o <<")">>
      [] node.kind = "PropertyAccessExpression" ->
           TextOf(node.expression) \o <<".">> \o node.name.text
      [] node.kind = "ExportAssignment" ->
           <<"e", "x", "p", "o", "r", "t", " ", "d", "e", "f", "a", "u", "l", "t", " ">>
               \o TextOf(node.expression)
      [] node.kind = "VariableStatement" ->
           <<"c", "o", "n", "s", "t", " ">>
               \o Join([i \in 1..Len(node.declarations) |->
                           node.declarations[i].name \o <<" ", "=", " ">>
                               \o TextOf(node.declarations[i].initializer)],
                       <<",", " ">>)
\* the content of a config file, whose parse the source file is
SourceText(source) == Join(TextsOf(source.statements), <<"\n">>)

\* the loop over the blocks
RECURSIVE ParseBlocks(_, _, _, _)
ParseBlocks(blocks, i, entries, warnings) ==
    IF i > Len(blocks) THEN EntriesParseResult(entries, warnings)
    ELSE LET Rest(parsed) == ParseBlocks(blocks, i + 1, entries \o parsed.entries, parsed.warnings)
         IN  Rest(parseEntriesBlock(blocks[i], warnings))
\* the end of parseEntriesFromViteConfig, without the warning for no entry
BlocksParsedSilently(parsed) == parsed
\* the end of parseEntriesFromViteConfig
BlocksParsed(parsed) ==
    IF parsed.entries = <<>>
    THEN EntriesParseResult(parsed.entries,
             Append(parsed.warnings, <<"Entries detected but no usable dir values were parsed.">>))
    ELSE parsed
\* parseEntriesFromViteConfig once the syntax tree gave no entry
ScanBlocks(blocks, warnings) ==
    IF blocks = <<>>
    THEN EntriesParseResult(<<>>, Append(warnings, <<"No entries option found in Vite config.">>))
    ELSE BlocksParsed(ParseBlocks(blocks, 1, <<>>, warnings))
BlocksOf(content, pluginBlocks) ==
    IF pluginBlocks # <<>> THEN pluginBlocks ELSE findEntriesBlocks(content)
AstOrScan(content, astResult) ==
    IF astResult.entries # <<>> THEN astResult
    ELSE ScanBlocks(BlocksOf(content, findMokupPluginOptionBlocks(content)), astResult.warnings)
parseEntriesFromViteConfig(source, tsLoads) ==
    AstOrScan(SourceText(source), parseEntriesFromViteConfigAst(source, tsLoads))

(***************************************************************************)
(* Config files considered (inputs)                                        *)
(***************************************************************************)
MaxEntries == 2

Lit(s) == StringLiteral(<<s>>)
CallOf(name, args) == CallExpression(Identifier(name), args)
n_d == <<"d">>
n_u == <<"u">>
n_plugins == <<"p", "l", "u", "g", "i", "n", "s">>
n_getDir == <<"g", "e", "t", "D", "i", "r">>
ApiPrefix == StringLiteral(<<"/", "p">>)

\* entry objects whose dir, prefix, watch and mode are literals
LiteralEntries ==
    {ObjectLiteralExpression(<<Prop(Word.dir, Lit("a"))>>),
     ObjectLiteralExpression(<<Prop(Word.dir, Lit("b")), Prop(Word.prefix, ApiPrefix)>>),
     ObjectLiteralExpression(<<Prop(Word.prefix, ApiPrefix), Prop(Word.dir, Lit("c")),
                               Prop(Word.watch, TrueKeyword), Prop(Word.mode, StringLiteral(Word.server))>>),
     ObjectLiteralExpression(<<Prop(Word.dir, Lit("b")), Prop(Word.watch, FalseKeyword),
                               Prop(Word.mode, StringLiteral(Word.sw))>>)}
\* entry objects whose dir is missing, empty, computed or a name
OtherEntries ==
    {ObjectLiteralExpression(<<Prop(Word.prefix, ApiPrefix)>>),
     ObjectLiteralExpression(<<Prop(Word.dir, StringLiteral(<<>>))>>),
     ObjectLiteralExpression(<<Prop(Word.dir, CallOf(n_getDir, <<>>)), Prop(Word.watch, TrueKeyword)>>),
     ObjectLiteralExpression(<<Prop(Word.dir, Identifier(n_d))>>),
     ObjectLiteralExpression(<<Prop(Word.dir, Identifier(n_u))>>),
     ObjectLiteralExpression(<<Prop(Word.dir, ArrayLiteralExpression(<<Lit("a"), Lit("b")>>)),
                               Prop(Word.prefix, ApiPrefix)>>),
     ObjectLiteralExpression(<<Prop(Word.dir,
         CallExpression(PropertyAccessExpression(Identifier(Word.path), Word.join),
                        <<Lit("a"), Identifier(n_d)>>))>>)}
\* array elements that are no entry object
OtherItems ==
    {Lit("c"), CallOf(n_getDir, <<>>), ArrayLiteralExpression(<<Lit("a")>>),
     SpreadElement(Identifier(n_u)), NumericLiteral(<<"1">>)}
EntryItems == LiteralEntries \cup OtherEntries \cup OtherItems

ItemLists(n) == UNION {[1..k -> EntryItems] : k \in 0..n}
\* the values written for the entries option
EntriesValues ==
    {ArrayLiteralExpression(items) : items \in ItemLists(MaxEntries)}
        \cup LiteralEntries \cup OtherEntries \cup {Lit("a"), CallOf(n_getDir, <<>>), TrueKeyword}
EntriesOption(value) == ObjectLiteralExpression(<<Prop(Word.entries, value)>>)
\* the argument lists written for the plugin call
PluginArguments ==
    {<<EntriesOption(value)>> : value \in EntriesValues}
        \cup {<<e>> : e \in LiteralEntries \cup OtherEntries}
        \cup {<<>>, <<Lit("a")>>, <<Identifier(n_d)>>, <<Identifier(n_u)>>,
              <<EntriesOption(Lit("a")), Lit("b")>>}
\* the plugin called by its name, or as a property
PluginCalls ==
    {CallOf(Word.mokup, args) : args \in PluginArguments}
        \cup {CallExpression(PropertyAccessExpression(Identifier(n_u), Word.mokup),
                             <<EntriesOption(ArrayLiteralExpression(<<e>>))>>) : e \in LiteralEntries}
ConfigFile(config) ==
    SourceFile(<<VariableStatement(TRUE, <<VariableDeclaration(n_d, Lit("a"))>>),
                 ExportAssignment(config)>>)
ConfigFiles ==
    {ConfigFile(EntriesOption(value)) : value \in EntriesValues}
        \cup {ConfigFile(ObjectLiteralExpression(<<Prop(n_plugins, ArrayLiteralExpression(<<c>>))>>)) :
                 c \in PluginCalls}
        \cup {ConfigFile(CallOf(Word.defineConfig,
                  <<ObjectLiteralExpression(<<Prop(n_plugins, ArrayLiteralExpression(<<c>>))>>)>>)) :
                 c \in {CallOf(Word.mokup, <<EntriesOption(ArrayLiteralExpression(<<e>>))>>) :
                           e \in LiteralEntries}}
        \cup {ConfigFile(ObjectLiteralExpression(<<Prop(n_plugins, ArrayLiteralExpression(<<>>))>>))}

(***************************************************************************)
(* OpenAPI exporter (src/openapi/exporter.ts)                              *)
(*                                                                         *)
(* An optional property is a sequence: <<>> when it is undefined, <<v>>    *)
(* when it holds v.  A path item is an object with an identity: documents  *)
(* hold the address of each of their path items, and `objects` maps the    *)
(* addresses to what the objects hold, a map of methods to operations.     *)
(***************************************************************************)
NotGiven == <<>>
Given(v) == <<v>>
\* opt ?? default
Default(opt, default) == IF opt = NotGiven THEN default ELSE opt[1]

Strategy == [merge |-> "merge", overwrite |-> "overwrite"]
\* { responses: { 200: { description } } }
Operation(description) == [responses |-> ("200" :> [description |-> description])]
DefaultOperation == Operation("OK")
\* what mergePaths assigns to existing[route.method] under a strategy
OperationUnder(strategy, already, existing, method) ==
    IF strategy = Strategy.overwrite THEN DefaultOperation
    ELSE IF already THEN existing[method] ELSE DefaultOperation

\* existing = result[route.path] ?? {}: the object result holds, or a new one
PathItem(paths, objects, path) ==
    IF path \in DOMAIN paths
    THEN [address |-> paths[path], objects |-> objects]
    ELSE [address |-> Len(objects) + 1, objects |-> Append(objects, <<>>)]

SkipsWhenAlready(strategy, already) == already
\* if (already && strategy === 'merge') continue
Skips(strategy, already) == already /\ strategy = Strategy.merge

\* one turn of the loop of mergePaths
MergeRoute(st, route, strategy) ==
    LET Turn(item) ==
            LET existing == item.objects[item.address]
                already == route.method \in DOMAIN existing
            IN  IF Skips(strategy, already) THEN st
                ELSE [result |-> (route.path :> item.address) @@ st.result,
                      objects |->
                          [item.objects EXCEPT ![item.address] =
                              (route.method :>
                                   OperationUnder(strategy, already, existing, route.method))
                              @@ existing]]
    IN  Turn(PathItem(st.result, st.objects, route.path))

RECURSIVE MergeRoutes(_, _, _, _)
MergeRoutes(st, routes, i, strategy) ==
    IF i > Len(routes) THEN st
    ELSE MergeRoutes(MergeRoute(st, routes[i], strategy), routes, i + 1, strategy)

\* result starts as a copy of basePaths that holds the same path items
mergePaths(basePaths, routes, strategy, objects) ==
    MergeRoutes([result |-> Default(basePaths, <<>>), objects |-> objects],
                routes, 1, strategy)

mergeSchemas(baseSchemas, schemas, strategy) ==
    IF baseSchemas = NotGiven THEN schemas
    ELSE IF strategy = Strategy.overwrite THEN schemas @@ baseSchemas[1]
    ELSE baseSchemas[1] @@ schemas

\* base?.property
OfBase(base, property) == IF base = NotGiven THEN NotGiven ELSE base[1][property]

\* the document returned, and the objects after the call
exportMokupToOpenApi(opts, objects) ==
    LET base == opts.base
        mergeStrategy == Default(opts.mergeStrategy, Strategy.merge)
        Export(merged) ==
            [doc |->
                 [openapi |-> Default(OfBase(base, "openapi"), "3.1.0"),
                  info |-> Default(OfBase(base, "info"),
                                   [title |-> Default(opts.title, "Mokup API"),
                                    version |-> Default(opts.version, "0.0.0")]),
                  servers |-> OfBase(base, "servers"),
                  tags |-> OfBase(base, "tags"),
                  paths |-> merged.result,
                  components |->
                      [schemas |-> mergeSchemas(OfBase(base, "schemas"),
                                                Default(opts.schemas, <<>>),
                                                mergeStrategy)]],
             objects |-> merged.objects]
    IN  Export(mergePaths(OfBase(base, "paths"), Default(opts.routes, <<>>),
                          mergeStrategy, objects))

(***************************************************************************)
(* Base documents and exports considered                                   *)
(***************************************************************************)
MaxRoutes == 2
RoutePaths == {"/users", "/pets"}
RouteMethods == {"get", "post"}
\* no route names POST /pets
MockRoutes == [method : RouteMethods, path : RoutePaths] \ {[method |-> "post", path |-> "/pets"]}
RouteLists == UNION {[1..n -> MockRoutes] : n \in 0..MaxRoutes}

\* the path items a base document is built with: each holds operations
\* described 'Base' for some of the methods
BasePathItems == {[m \in ms |-> Operation("Base")] : ms \in SUBSET RouteMethods}
\* the base's path items, laid out as objects in the order of its paths
BaseObjectLists == UNION {[1..n -> BasePathItems] : n \in 0..Cardinality(RoutePaths)}
PathsOver(n) ==
    IF n = 0 THEN {<<>>}
    ELSE IF n = 1 THEN {(p :> 1) : p \in RoutePaths}
    ELSE {("/users" :> 1) @@ ("/pets" :> 2)}
BaseSchemas == Given("User" :> "BaseUser")
MokupSchemas == {NotGiven, Given(("User" :> "MokupUser") @@ ("Pet" :> "MokupPet"))}
BaseDocument(paths, schemas) ==
    [openapi |-> Given("3.0.3"), info |-> Given([title |-> "Base", version |-> "1.0.0"]),
     servers |-> Given(<<"https://api.example.com">>), tags |-> NotGiven,
     paths |-> paths, schemas |-> schemas]
\* the options handed over, with the objects the base is built from
ExportInputs ==
    {[base |-> NotGiven, objects |-> <<>>]}
    \cup {[base |-> Given(BaseDocument(NotGiven, NotGiven)), objects |-> <<>>]}
    \cup UNION {{[base |-> Given(BaseDocument(Given(p), BaseSchemas)), objects |-> objs] :
                     p \in PathsOver(Len(objs))} :
                objs \in BaseObjectLists}
MergeStrategies == {NotGiven, Given(Strategy.merge), Given(Strategy.overwrite)}

(***************************************************************************)
(* Mock file paths (routeToFilePath of src/openapi/exporter.ts) and the    *)
(* routes read from them (src/mock/routes.ts).  Texts are sequences of     *)
(* characters.                                                             *)
(***************************************************************************)
\* s.startsWith(p), s.endsWith(p), s.split(c), s.replace(/\/+$/, '')
HasPrefix(s, p) == Len(p) <= Len(s) /\ SubSeq(s, 1, Len(p)) = p
HasSuffix(s, p) == Len(p) <= Len(s) /\ SubSeq(s, Len(s) - Len(p) + 1, Len(s)) = p
RECURSIVE Split(_, _)
Split(s, c) ==
    LET i == FirstIn({k \in 1..Len(s) : s[k] = c}, 0)
    IN  IF i = 0 THEN <<s>>
        ELSE <<SubSeq(s, 1, i - 1)>> \o Split(SubSeq(s, i + 1, Len(s)), c)
WithoutTrailingSlashes(s) ==
    SubSeq(s, 1, Len(s) - FirstIn({k \in 0..(Len(s) - 1) : s[Len(s) - k] # "/"}, Len(s)))
\* segments.filter(Boolean)
NonEmpty(segments) == SelectSeq(segments, LAMBDA seg : seg # <<>>)
\* method.toLowerCase(), for the letters of the method names
LowerCaseOf(c) ==
    CASE c = "G" -> "g" [] c = "E" -> "e" [] c = "T" -> "t" [] c = "P" -> "p"
      [] c = "O" -> "o" [] c = "S" -> "s" [] c = "U" -> "u" [] OTHER -> c
ToLowerCase(s) == [i \in 1..Len(s) |-> LowerCaseOf(s[i])]

\* prefix.startsWith('/') ? prefix : `/${prefix}`
WithLeadingSlash(s) == IF StartsWith(s, "/") THEN s ELSE <<"/">> \o s
\* if (prefix): given and not empty
IsSet(prefix) == prefix # NotGiven /\ prefix[1] # <<>>

\* if (pathValue.startsWith(normalizedPrefix))
\*   pathValue = pathValue.slice(normalizedPrefix.length) || '/'
Stripped(pathValue, normalizedPrefix) ==
    IF HasPrefix(pathValue, normalizedPrefix)
    THEN IF Len(pathValue) = Len(normalizedPrefix) THEN <<"/">>
         ELSE SubSeq(pathValue, Len(normalizedPrefix) + 1, Len(pathValue))
    ELSE pathValue

normalizePath(routePath, prefix) ==
    IF IsSet(prefix)
    THEN Stripped(WithLeadingSlash(Trim(routePath)), WithLeadingSlash(prefix[1]))
    ELSE WithLeadingSlash(Trim(routePath))

\* seg.replace(/^\{(.+)\}$/, '[$1]')
ToFileSegment(seg) ==
    IF Len(seg) >= 3 /\ seg[1] = "{" /\ seg[Len(seg)] = "}"
    THEN <<"[">> \o SubSeq(seg, 2, Len(seg) - 1) \o <<"]">>
    ELSE seg

splitRouteSegments(routePath) ==
    LET cleaned == WithoutTrailingSlashes(routePath)
        segments == NonEmpty(Split(cleaned, "/"))
    IN  IF cleaned = <<>> \/ cleaned = <<"/">> THEN <<<<"i", "n", "d", "e", "x">>>>
        ELSE [i \in 1..Len(segments) |-> ToFileSegment(segments[i])]

\* the file path, or none with a warning when the entry has no dir
routeToFilePath(route, entry, packageRoot, format) ==
    IF ~IsSet(entry.dir)
    THEN [filePath |-> NotGiven,
          warnings |-> <<<<"Missing entry dir for route ", route.method, " ", route.path>>>>]
    ELSE LET found == splitRouteSegments(normalizePath(route.path, entry.prefix))
             segments == IF Len(found) = 0 THEN <<<<"i", "n", "d", "e", "x">>>> ELSE found
             ext == IF format = "json" THEN <<"j", "s", "o", "n">> ELSE <<"t", "s">>
             fileName == segments[Len(segments)] \o <<".">> \o ToLowerCase(route.method)
                         \o <<".">> \o ext
         IN  [filePath |->
                  Given(PathJoin(<<packageRoot, entry.dir[1]>>
                                 \o SubSeq(segments, 1, Len(segments) - 1)
                                 \o <<fileName>>)),
              warnings |-> <<>>]

METHODS ==
    <<<<"g", "e", "t">>, <<"p", "o", "s", "t">>, <<"p", "u", "t">>,
      <<"p", "a", "t", "c", "h">>, <<"d", "e", "l", "e", "t", "e">>, <<"h", "e", "a", "d">>,
      <<"o", "p", "t", "i", "o", "n", "s">>, <<"t", "r", "a", "c", "e">>>>

\* path.relative(from, to) for a file below the directory, and path.extname
PathRelative(from, to) ==
    IF HasPrefix(to, from \o <<"/">>) THEN SubSeq(to, Len(from) + 2, Len(to)) ELSE to
ExtName(rel) ==
    LET name == Split(rel, "/")[Len(Split(rel, "/"))]
        dot == FirstIn({k \in 0..(Len(name) - 1) : name[Len(name) - k] = "."}, Len(name))
    IN  IF dot >= Len(name) - 1 THEN <<>> ELSE SubSeq(name, Len(name) - dot, Len(name))

\* segment.match(/^\[(\.\.\.)?(.+)\]$/) ? `{${match[2]}}` : segment
toRouteSegment(segment) ==
    IF Len(segment) >= 3 /\ segment[1] = "[" /\ segment[Len(segment)] = "]"
    THEN LET inner == SubSeq(segment, 2, Len(segment) - 1)
         IN  <<"{">>
             \o (IF Len(inner) > 3 /\ HasPrefix(inner, <<".", ".", ".">>)
                 THEN SubSeq(inner, 4, Len(inner)) ELSE inner)
             \o <<"}">>
    ELSE segment

buildPath(segments, prefix) ==
    LET base == <<"/">> \o Join(NonEmpty([i \in 1..Len(segments) |->
                                            toRouteSegment(segments[i])]), <<"/">>)
        normalizedPrefix == IF IsSet(prefix) THEN WithLeadingSlash(prefix[1]) ELSE <<>>
    IN  IF normalizedPrefix = <<>> THEN base
        ELSE IF base = <<"/">> THEN normalizedPrefix
        ELSE normalizedPrefix \o base

\* the route of a mock file, or none when its name ends in no method
routeFromFile(filePath, entryDir, prefix) ==
    LET rel == PathRelative(entryDir, filePath)
        ext == ExtName(rel)
        base == IF ext = <<>> THEN <<>> ELSE SubSeq(rel, 1, Len(rel) - Len(ext))
        parts == Split(base, "/")
        last == parts[Len(parts)]
        matched == {k \in 1..Len(METHODS) : HasSuffix(last, <<".">> \o METHODS[k])}
    IN  IF matched = {} THEN NotGiven
        ELSE LET method == METHODS[CHOOSE k \in matched : TRUE]
                 name == SubSeq(last, 1, Len(last) - Len(method) - 1)
                 segments == IF name = <<"i", "n", "d", "e", "x">>
                             THEN SubSeq(parts, 1, Len(parts) - 1)
                             ELSE SubSeq(parts, 1, Len(parts) - 1) \o <<name>>
                 pathValue == buildPath(segments, prefix)
             IN  Given([method |-> method,
                        path |-> IF pathValue = <<"/">> THEN pathValue
                                 ELSE WithoutTrailingSlashes(pathValue),
                        sourceFile |-> filePath])

(***************************************************************************)
(* Entries and routes considered                                           *)
(***************************************************************************)
MaxSegments == 2
PackageRoot == <<"/", "r">>
\* literal segments, two of them starting with the text of the prefix, and
\* a parameter
RouteSegments ==
    {<<"u">>, <<"a", "b">>, <<"a", "b", "c">>, <<"i", "n", "d", "e", "x">>,
     <<"{", "i", "d", "}">>}
PathOf(segments) == <<"/">> \o Join(segments, <<"/">>)
RoutePathTexts ==
    {PathOf(segments) : segments \in UNION {[1..n -> RouteSegments] : n \in 0..MaxSegments}}
MokupRoutes == [method : {METHODS[1], METHODS[2]}, path : RoutePathTexts]
MokupEntries ==
    [dir : {Given(<<"m">>)}, prefix : {NotGiven, Given(<<"/", "a", "b">>), Given(<<"a", "b">>)}]

(***************************************************************************)
(* Mock file writer (writeMockFiles of src/openapi/writer.ts).  The disk   *)
(* maps the path of each file to its content.  A path is <<name, k>>: the  *)
(* planned file itself for k = 0, name.bak for k = 1, name.bak<k> above;   *)
(* directories are always there.                                           *)
(***************************************************************************)
Conflict == [overwrite |-> "overwrite", skip |-> "skip", backup |-> "backup",
             prompt |-> "prompt"]
Pick == [overwrite |-> "overwrite", skip |-> "skip", backup |-> "backup",
         overwriteAll |-> "overwriteAll", skipAll |-> "skipAll", backupAll |-> "backupAll",
         cancel |-> "cancel"]
\* the items of the quick pick, and its dismissal (picked is undefined)
Dismissed == "undefined"
Answers ==
    {Pick.overwrite, Pick.skip, Pick.backup, Pick.overwriteAll, Pick.skipAll,
     Pick.backupAll, Pick.cancel, Dismissed}

FilePath(name) == <<name, 0>>
fileExists(disk, filePath) == filePath \in DOMAIN disk

BackupLimit == 1000
\* name.bak, or the first free name.bak<i> for 2 <= i < 1000, or a name
\* made from the clock
nextBackupPath(disk, filePath) ==
    IF ~fileExists(disk, <<filePath[1], 1>>) THEN <<filePath[1], 1>>
    ELSE <<filePath[1],
           FirstIn({i \in 2..(BackupLimit - 1) : ~fileExists(disk, <<filePath[1], i>>)},
                   BackupLimit)>>
\* the disk after backupFile(filePath)
backupFile(disk, filePath) ==
    (nextBackupPath(disk, filePath) :> disk[filePath]) @@ disk
\* the disk after workspace.fs.writeFile(path, content)
writeFile(disk, filePath, content) == (filePath :> content) @@ disk

\* what an answer makes of applyAll and of the strategy for the file
ApplyAllKept(action, applyAll) == applyAll
ApplyAllAfter(action, applyAll) ==
    CASE action = Pick.overwriteAll -> Given(Conflict.overwrite)
      [] action = Pick.skipAll -> Given(Conflict.skip)
      [] action = Pick.backupAll -> Given(Conflict.backup)
      [] OTHER -> applyAll
StrategyAfter(action) ==
    CASE action = Pick.overwriteAll -> Conflict.overwrite
      [] action = Pick.skipAll -> Conflict.skip
      [] action = Pick.backupAll -> Conflict.backup
      [] OTHER -> action

ContinuesNever(strategy) == FALSE
\* if (strategy === 'skip') continue
Continues(strategy) == strategy = Conflict.skip

\* the disk after an existing file was handled with a strategy that is not
\* 'prompt', or a file that did not exist was written
Handled(disk, file, exists, strategy) ==
    IF exists /\ Continues(strategy) THEN disk
    ELSE IF exists /\ strategy = Conflict.backup
    THEN writeFile(backupFile(disk, file.path), file.path, file.content)
    ELSE writeFile(disk, file.path, file.content)

\* one pass of the loop of writeMockFiles; `answer` is what the quick pick
\* returns if it is shown
WriteMockFile(file, defaultConflict, applyAll, disk, answer) ==
    LET exists == fileExists(disk, file.path)
        strategy == Default(applyAll, defaultConflict)
    IN  IF exists /\ strategy = Conflict.prompt
        THEN IF answer \in {Dismissed, Pick.cancel}
             THEN [returned |-> TRUE, prompted |-> TRUE, applyAll |-> applyAll, disk |-> disk]
             ELSE [returned |-> FALSE, prompted |-> TRUE,
                   applyAll |-> ApplyAllAfter(answer, applyAll),
                   disk |-> Handled(disk, file, exists, StrategyAfter(answer))]
        ELSE [returned |-> FALSE, prompted |-> FALSE, applyAll |-> applyAll,
              disk |-> Handled(disk, file, exists, strategy)]

(***************************************************************************)
(* Plans and disks considered                                              *)
(***************************************************************************)
MaxPlan == 3
PlanNames == {"a.get.ts", "b.get.ts", "c.get.ts"}
\* plans name each path once (planMockWritesForEntry)
MockWritePlans ==
    {p \in UNION {[1..n -> PlanNames] : n \in 1..MaxPlan} :
         \A i, j \in 1..Len(p) : i # j => p[i] # p[j]}
PlannedFile(name) == [path |-> FilePath(name), content |-> "new", format |-> "ts"]
\* some of the planned files are on disk, one of them with a backup
Disks ==
    {[q \in {FilePath(n) : n \in there} |-> "old"] : there \in SUBSET PlanNames}
    \cup {(<<"a.get.ts", 1>> :> "older") @@ (FilePath("a.get.ts") :> "old")}
WriteMockOptions == [conflict : {NotGiven, Given(Conflict.overwrite), Given(Conflict.skip),
                                 Given(Conflict.backup), Given(Conflict.prompt)}]

(***************************************************************************)
(* Mock runner (MokupRunner of src/runner/manager.ts) and the ensureMock   *)
(* messages of the preview panels (handleEnsureMockMessage, waitForPort).  *)
(*                                                                         *)
(* children are the child processes spawned so far, in order: each is      *)
(* "running", "killed" (kill() was called, its exit event is still to      *)
(* come) or "exited".  processes is the runner's map from package roots to *)
(* records.  A call returns the runner's new state with `fired`, whether   *)
(* the update emitter fired.                                               *)
(***************************************************************************)
Runner(processes, children, fired) ==
    [processes |-> processes, children |-> children, fired |-> fired]
\* processes.delete(packageRoot)
Without(processes, packageRoot) ==
    [r \in DOMAIN processes \ {packageRoot} |-> processes[r]]
isRunning(processes, packageRoot) == packageRoot \in DOMAIN processes

\* runner.start(entry, command, args)
start(processes, children, packageRoot, by) ==
    IF isRunning(processes, packageRoot) THEN Runner(processes, children, FALSE)
    ELSE Runner((packageRoot :> [proc |-> Len(children) + 1, port |-> NotGiven])
                    @@ processes,
                Append(children, [packageRoot |-> packageRoot, state |-> "running",
                                  by |-> by]),
                TRUE)

\* proc.kill()
Killed(children, proc) ==
    [children EXCEPT ![proc].state = IF @ = "running" THEN "killed" ELSE @]

\* runner.stop(entry)
stop(processes, children, packageRoot) ==
    IF ~isRunning(processes, packageRoot) THEN Runner(processes, children, FALSE)
    ELSE Runner(Without(processes, packageRoot),
                Killed(children, processes[packageRoot].proc), TRUE)

\* runner.stopAll(): stop(record.entry) for every record
stopAll(processes, children) ==
    Runner(<<>>,
           [i \in 1..Len(children) |->
                IF \E r \in DOMAIN processes : processes[r].proc = i
                THEN Killed(children, i)[i] ELSE children[i]],
           DOMAIN processes # {})

\* proc.on('exit'): this.processes.delete(entry.packageRoot)
DeletesOnExit(processes, packageRoot, proc) == Without(processes, packageRoot)

\* the exit event of a child
onExit(processes, children, proc) ==
    Runner(DeletesOnExit(processes, children[proc].packageRoot, proc),
           [children EXCEPT ![proc].state = "exited"], TRUE)

\* detectPort(packageRoot, text) for a text in which matchPort finds `port`
detectPort(processes, children, packageRoot, port) ==
    IF ~isRunning(processes, packageRoot) \/ port = 0
       \/ processes[packageRoot].port = Given(port)
    THEN Runner(processes, children, FALSE)
    ELSE Runner([processes EXCEPT ![packageRoot].port = Given(port)], children, TRUE)

\* runner.getRunningEntries().find(item => item.entry.packageRoot === ...)?.port
KnownPort(processes, packageRoot) ==
    IF isRunning(processes, packageRoot) THEN processes[packageRoot].port ELSE NotGiven
BaseUrl(port) == <<"http://localhost:", port>>
resolveBaseUrl(entryRoot, processes) ==
    IF entryRoot = NotGiven \/ KnownPort(processes, entryRoot[1]) = NotGiven THEN NotGiven
    ELSE Given(BaseUrl(KnownPort(processes, entryRoot[1])[1]))

\* the ensureMockResult messages
Ok(request, baseUrl) ==
    [type |-> "ensureMockResult", to |-> request, ok |-> TRUE, baseUrl |-> baseUrl]
Failed(request, error) ==
    [type |-> "ensureMockResult", to |-> request, ok |-> FALSE, error |-> error]

\* the listeners of waitForPort run when the emitter fires: each request
\* that waits for a port its package root now has is resolved, and its
\* handler replies
RECURSIVE Listeners(_, _, _, _)
Listeners(processes, requests, replies, i) ==
    IF i > Len(requests) THEN [requests |-> requests, replies |-> replies]
    ELSE IF requests[i].step = "waiting"
            /\ KnownPort(processes, requests[i].packageRoot[1]) # NotGiven
    THEN Listeners(processes, [requests EXCEPT ![i].step = "done"],
                   Append(replies,
                          Ok(i, BaseUrl(KnownPort(processes,
                                                  requests[i].packageRoot[1])[1]))),
                   i + 1)
    ELSE Listeners(processes, requests, replies, i + 1)

StillWaiting(requests, replies, i) ==
    [requests |-> requests,
     replies |-> Append(replies, Failed(i, "Mock startup timed out"))]
\* the timer of waitForPort resolves undefined: 'Mock startup timed out'
TimedOut(requests, replies, i) ==
    [requests |-> [requests EXCEPT ![i].step = "done"],
     replies |-> Append(replies, Failed(i, "Mock startup timed out"))]

(***************************************************************************)
(* Package roots, commands and messages considered                         *)
(***************************************************************************)
MaxStarts == 1
MaxRequests == 1
PackageRoots == {"/w/a", "/w/b"}
\* the port a child announces on its output
AnnouncedBy(proc) == 3000 + proc

(***************************************************************************)
(* Preview webview (webview/App.vue; the plain webview of                  *)
(* preview/webview.ts handles the same messages the same way).  Texts are  *)
(* tuples of their parts.                                                  *)
(***************************************************************************)
\* the response fields of a webview that was just loaded
EmptyResponse ==
    [status |-> <<"--">>, statusText |-> <<>>, duration |-> <<"--">>,
     headers |-> <<"// empty">>, body |-> <<"// empty">>, error |-> <<>>]
View(lastRequestId, sending, response) ==
    [lastRequestId |-> lastRequestId, sending |-> sending, response |-> response]
\* value ?? '--', value || fallback
OrDashes(opt) == IF opt = NotGiven THEN "--" ELSE opt[1]
OrText(opt, fallback) == IF opt = NotGiven \/ opt[1] = <<>> THEN fallback ELSE opt[1]

\* what handleResponse writes into response.body: the pretty-printed JSON
\* when the content type or the first character announces JSON and the
\* text parses, the text itself otherwise
BodyShown(message) ==
    LET body == Default(message.body, [text |-> <<>>, parses |-> FALSE, braces |-> FALSE])
        maybeJson == message.headers # NotGiven /\ message.headers[1].json
    IN  IF (maybeJson \/ body.braces) /\ body.parses
        THEN <<"JSON.stringify(JSON.parse(">> \o body.text \o <<"), null, 2)">>
        ELSE IF body.text = <<>> THEN <<"// empty">> ELSE body.text

IsAnswer(message, lastRequestId) == TRUE
\* if (message.id !== lastRequestId) return
IsCurrent(message, lastRequestId) == message.id = lastRequestId

\* the webview after handleResponse(message)
handleResponse(view, message) ==
    IF ~IsCurrent(message, view.lastRequestId) THEN view
    ELSE IF ~message.ok
    THEN View(view.lastRequestId, FALSE,
              [view.response EXCEPT
                   !.error = OrText(message.error, <<"Request failed">>),
                   !.status = <<"FAILED">>,
                   !.duration = <<OrDashes(message.durationMs), " ms">>])
    ELSE View(view.lastRequestId, FALSE,
              [view.response EXCEPT
                   !.status = <<OrDashes(message.status)>>,
                   !.statusText = IF message.statusText = NotGiven
                                     \/ message.statusText[1] = <<>>
                                  THEN <<>> ELSE <<" ">> \o message.statusText[1],
                   !.duration = <<OrDashes(message.durationMs), " ms">>,
                   !.headers = IF message.headers = NotGiven THEN <<"// empty">>
                               ELSE <<"JSON.stringify(", message.headers[1], ", null, 2)">>,
                   !.body = BodyShown(message)])

\* the webview after performRequest() on a form with a base URL, whose
\* JSON fields parse or not; `now` is Date.now()
performRequest(view, parses, now) ==
    IF ~parses THEN View(view.lastRequestId, view.sending,
                         [view.response EXCEPT !.error = <<>>])
    ELSE View(now, TRUE,
              [view.response EXCEPT
                   !.error = <<>>, !.status = <<"SENDING">>, !.duration = <<"--">>,
                   !.statusText = <<>>, !.headers = <<"// empty">>,
                   !.body = <<"// empty">>])

(***************************************************************************)
(* Requests and responses considered                                       *)
(***************************************************************************)
MaxSends == 2
MaxClock == 2
\* what the extension host answers to a sendRequest: a failure, a JSON
\* response, a response without a body
ResponsesTo(id) ==
    {[type |-> "response", id |-> id, ok |-> FALSE, error |-> Given(<<"fetch failed">>),
      status |-> NotGiven, statusText |-> NotGiven, headers |-> NotGiven,
      body |-> NotGiven, durationMs |-> NotGiven],
     [type |-> "response", id |-> id, ok |-> TRUE, error |-> NotGiven,
      status |-> Given("200"), statusText |-> Given(<<"OK">>),
      headers |-> Given([json |-> TRUE]),
      body |-> Given([text |-> <<"{\"ok\":true}">>, parses |-> TRUE, braces |-> TRUE]),
      durationMs |-> Given("5")],
     [type |-> "response", id |-> id, ok |-> TRUE, error |-> NotGiven,
      status |-> Given("204"), statusText |-> Given(<<>>), headers |-> NotGiven,
      body |-> NotGiven, durationMs |-> Given("5")]}

(***************************************************************************)
(* State                                                                   *)
(***************************************************************************)
VARIABLES
    pc,           \* the call about to be made, or made
    fileExt,      \* extension of the route's source file
    source,       \* its syntax tree
    tsLoads,      \* whether require('typescript') succeeds
    jsonParses,   \* whether the raw text parses as JSON or JSONC
    preview,      \* what buildPreview returned
    node,         \* expression or function handed to the evaluator
    env,          \* the caller's environment (one Map object)
    paramValues,  \* values handed to findReturnedObject for the parameters
    result,       \* outcome of the evaluator call
    index,        \* number of declarations or files already processed by a loop
    schemas,      \* the schema map a loop is filling
    warnings,     \* the warnings collected so far
    files,        \* the declaration files picked for the import
    options,      \* the options of the last exportMokupToOpenApi call
    heap,         \* the path item objects of the base document and of the last export
    route,        \* the route a mock file is planned for
    entry,        \* the entry (dir, prefix) the file belongs to
    filePath,     \* the path of the mock file
    plan,         \* the files writeMockFiles is to write
    applyAll,     \* the strategy an 'All' answer has set
    disk,         \* the files of the workspace
    prompts,      \* the quick picks shown so far, each with its answer
    processes,    \* the runner's records, by package root
    children,     \* the child processes spawned so far
    requests,     \* the ensureMock messages received, each with its handler's position
    replies,      \* the ensureMockResult messages posted to the panels
    lastRequestId, \* the id of the last sendRequest of the preview webview
    sending,      \* whether its send button is disabled
    response,     \* the response fields it shows
    clock,        \* Date.now() in the webview
    sent          \* the sendRequest messages posted, each answered or not

\* what the evaluator and the scanners never touch
otherVars == <<options, heap, route, entry, filePath, plan, applyAll, disk, prompts,
               processes, children, requests, replies,
               lastRequestId, sending, response, clock, sent>>
\* what the exporter never touches
scanVars == <<fileExt, source, tsLoads, jsonParses, preview, node, env, paramValues,
              index, schemas, warnings, files>>

vars == <<pc, fileExt, source, tsLoads, jsonParses, preview, node, env, paramValues, result,
          index, schemas, warnings, files, otherVars>>

\* no export has been asked for
ExporterIdle == options = <<>> /\ heap = <<>>
\* no mock file has been planned
NoRoute == [method |-> <<>>, path |-> <<>>]
NoEntry == [dir |-> <<>>, prefix |-> <<>>]
PlanIdle == route = NoRoute /\ entry = NoEntry /\ filePath = <<>>
\* nothing is being written
WriterIdle == plan = <<>> /\ applyAll = <<>> /\ disk = <<>> /\ prompts = <<>>
writerVars == <<plan, applyAll, disk, prompts>>
\* nothing was started and no message received
RunnerIdle == processes = <<>> /\ children = <<>> /\ requests = <<>> /\ replies = <<>>
runnerVars == <<processes, children, requests, replies>>
\* no preview webview is open
PreviewIdle ==
    lastRequestId = <<>> /\ sending = FALSE /\ response = <<>> /\ clock = 0 /\ sent = <<>>
previewVars == <<lastRequestId, sending, response, clock, sent>>
OthersIdle == ExporterIdle /\ PlanIdle /\ WriterIdle /\ RunnerIdle /\ PreviewIdle

NoPreview == [thrown |-> "", meta |-> "", text |-> <<>>, raw |-> FALSE]
NoSource == SourceFile(<<>>)

Init ==
    /\ OthersIdle
    /\ preview = NoPreview
    /\ result = R(Undefined)
    /\ index = 0 /\ schemas = <<>> /\ warnings = <<>> /\ files = <<>>
    /\ \/ /\ pc = "buildPreview"
          /\ \/ fileExt \in {"ts", "js"} /\ source \in SourceFiles /\ tsLoads = TRUE
             \/ fileExt \in {"ts", "mjs", "cjs"} /\ source = NoSource /\ tsLoads = FALSE
             \/ fileExt \in {"json", "jsonc", "txt"} /\ source = NoSource /\ tsLoads = TRUE
          /\ jsonParses \in (IF fileExt \in {"json", "jsonc"} THEN BOOLEAN ELSE {FALSE})
          /\ node = NoNode /\ env = EmptyEnv /\ paramValues = <<>>
       \/ /\ pc = "evalValue"
          /\ node \in Expressions
          /\ env \in Environments
          /\ paramValues = <<>>
          /\ fileExt = "ts" /\ source = NoSource /\ tsLoads = TRUE /\ jsonParses = FALSE
       \/ /\ pc = "findReturnedObject"
          /\ \E body \in Bodies(MaxBody) \cup OtherBodies, inv \in Invocations :
                /\ node = FunctionExpression(inv[1], Block(body))
                /\ paramValues = inv[2]
                /\ env = inv[3]
          /\ fileExt = "ts" /\ source = NoSource /\ tsLoads = TRUE /\ jsonParses = FALSE

\* The preview panel asks for the preview of the route file.
BuildPreview ==
    /\ pc = "buildPreview"
    /\ preview' = buildPreview(fileExt, source, tsLoads, jsonParses)
    /\ pc' = "previewed"
    /\ UNCHANGED <<fileExt, source, tsLoads, jsonParses, node, env, paramValues, result,
                 index, schemas, warnings, files, otherVars>>

\* evalValue(node, ts, env)
EvalValue ==
    /\ pc = "evalValue"
    /\ result' = evalValue(node, env, 1)
    /\ pc' = "evaluated"
    /\ UNCHANGED <<fileExt, source, tsLoads, jsonParses, preview, node, env, paramValues,
                 index, schemas, warnings, files, otherVars>>

\* findReturnedObject(node, ts, env, paramValues)
FindReturnedObject ==
    /\ pc = "findReturnedObject"
    /\ result' = findReturnedObject(node, env, paramValues, 1)
    /\ env' = createFunctionEnv(node, env, paramValues).baseEnv
    /\ pc' = "analysed"
    /\ UNCHANGED <<fileExt, source, tsLoads, jsonParses, preview, node, paramValues,
                 index, schemas, warnings, files, otherVars>>

Next == BuildPreview \/ EvalValue \/ FindReturnedObject

Spec == Init /\ [][Next]_vars

(***************************************************************************)
(* Properties                                                              *)
(***************************************************************************)
\* A string <...> with no angle bracket inside: <expr>, <function>, <name>
\* or <faker.path>.
IsUnresolvedMarker(v) ==
    /\ v.t = "string"
    /\ Len(v.s) >= 2
    /\ v.s[1] = "<"
    /\ v.s[Len(v.s)] = ">"
    /\ \A j \in 2..(Len(v.s) - 1) : v.s[j] \notin {"<", ">"}

Last(S) == CHOOSE i \in S : \A j \in S : j <= i

\* C1: value extraction never raises an exception: for every route file,
\* buildPreview returns the reduced value or the not-parsed result.
C1_BuildPreviewNeverThrows == pc = "previewed" => preview.thrown = ""

\* C2: evaluation terminates with a value or a marker, also when const
\* bindings refer to each other in a cycle: the recursion through expr-kind
\* bindings never exhausts the call stack.
C2_CyclicBindingsAreCutOff ==
    /\ pc = "evaluated" => result.thrown # "RangeError"
    /\ pc = "previewed" => preview.thrown # "RangeError"

\* C3: a binary expression one of whose operands evaluates to an unresolved
\* marker (that of an unbound identifier included) evaluates to an unresolved
\* marker, whatever the operator.
C3_UnresolvedOperandIsUnresolved ==
    (pc = "evaluated" /\ node.kind = "BinaryExpression") =>
        LET l == evalValue(node.left, env, 3)
            r == evalValue(node.right, env, 3)
        IN  (/\ ~Thrown(l)
             /\ ~Thrown(r)
             /\ IsUnresolvedMarker(l.val) \/ IsUnresolvedMarker(r.val))
                => ~Thrown(result) /\ IsUnresolvedMarker(result.val)

\* C4: c ? a : b is unresolved when c evaluates to an unresolved marker (that
\* of an unbound identifier included); otherwise it is the evaluation of a
\* when c is truthy and of b when c is falsy.
C4_UnresolvedConditionIsUnresolved ==
    (pc = "evaluated" /\ node.kind = "ConditionalExpression") =>
        LET c == evalValue(node.condition, env, 3)
        IN  ~Thrown(c) =>
                IF IsUnresolvedMarker(c.val)
                THEN ~Thrown(result) /\ IsUnresolvedMarker(result.val)
                ELSE result = evalValue(IF Truthy(c.val) THEN node.whenTrue ELSE node.whenFalse,
                                        env, 3)

\* C5: a template expression one of whose span expressions is unresolved
\* evaluates to the unresolved marker, not to a string around the marker.
C5_UnresolvedSpanIsUnresolved ==
    (pc = "evaluated" /\ node.kind = "TemplateExpression") =>
        ((\E j \in 1..Len(node.templateSpans) :
            LET v == evalValue(node.templateSpans[j].expression, env, 3)
            IN  ~Thrown(v) /\ IsUnresolvedMarker(v.val))
          => ~Thrown(result) /\ IsUnresolvedMarker(result.val))

\* C6: an arithmetic expression (+ - * / %) on two finite numbers evaluates
\* to a finite number or to the unresolved marker, and to the marker when the
\* right operand of / or % is zero.
C6_ArithmeticIsFiniteOrUnresolved ==
    (pc = "evaluated" /\ node.kind = "BinaryExpression"
        /\ node.operatorToken \in {"+", "-", "*", "/", "%"}) =>
        LET l == evalValue(node.left, env, 3)
            r == evalValue(node.right, env, 3)
        IN  (~Thrown(l) /\ ~Thrown(r) /\ IsFinite(l.val) /\ IsFinite(r.val)) =>
                /\ ~Thrown(result)
                /\ IsFinite(result.val) \/ result.val = ExprMarker
                /\ (node.operatorToken \in {"/", "%"} /\ IsZero(r.val)) => result.val = ExprMarker

\* The return expressions of the analysed function, and its scope.
ReturnsOfNode == collectReturnExpressions(node.body)
ScopeOfNode == createFunctionEnv(node, env, paramValues).env
ObjectReturns == {j \in 1..Len(ReturnsOfNode) : ReturnsOfNode[j].kind = "ObjectLiteralExpression"}
IdentifierReturns == {j \in 1..Len(ReturnsOfNode) : ReturnsOfNode[j].kind = "Identifier"}

\* C7 as stated: the last object-literal return wins; failing that the last
\* identifier return is resolved through the function scope (an unbound one
\* to its marker); failing that the last return expression is evaluated;
\* with no return expression the result is absent.
C7_ReturnPriorityAsStated ==
    (pc = "analysed" /\ node.body.kind = "Block") =>
        result = IF ObjectReturns # {}
                 THEN evalValue(ReturnsOfNode[Last(ObjectReturns)], ScopeOfNode, 1)
                 ELSE IF IdentifierReturns # {}
                 THEN evalValue(ReturnsOfNode[Last(IdentifierReturns)], ScopeOfNode, 1)
                 ELSE IF ReturnsOfNode # <<>>
                 THEN evalValue(ReturnsOfNode[Len(ReturnsOfNode)], ScopeOfNode, 1)
                 ELSE R(Undefined)

\* C7 (amended): the last object-literal return wins, even when a return of
\* another kind follows it; failing that, the last identifier return, when
\* its name is bound in the function scope, is resolved through that scope;
\* failing that (no identifier return, or the last one unbound), the last
\* return expression of any kind is evaluated; with no return expression the
\* result is absent.
C7_ReturnPriority ==
    (pc = "analysed" /\ node.body.kind = "Block") =>
        result = IF ObjectReturns # {}
                 THEN evalValue(ReturnsOfNode[Last(ObjectReturns)], ScopeOfNode, 1)
                 ELSE IF /\ IdentifierReturns # {}
                         /\ ReturnsOfNode[Last(IdentifierReturns)].text \in DOMAIN ScopeOfNode
                 THEN evalValue(ReturnsOfNode[Last(IdentifierReturns)], ScopeOfNode, 1)
                 ELSE IF ReturnsOfNode # <<>>
                 THEN evalValue(ReturnsOfNode[Len(ReturnsOfNode)], ScopeOfNode, 1)
                 ELSE R(Undefined)

\* an object-literal return followed by a return of another kind, and an
\* unbound identifier return followed by a return of another kind
C7_Witness ==
    /\ pc = "analysed"
    /\ node.body.kind = "Block"
    /\ \/ /\ ObjectReturns # {}
          /\ Last(ObjectReturns) < Len(ReturnsOfNode)
          /\ ~Thrown(result)
          /\ result.val.t = "object"
       \/ /\ ObjectReturns = {}
          /\ IdentifierReturns # {}
          /\ Last(IdentifierReturns) < Len(ReturnsOfNode)
          /\ ReturnsOfNode[Last(IdentifierReturns)].text \notin DOMAIN ScopeOfNode

\* C8: analysing a function leaves the caller's environment as it was: every
\* name keeps its binding and no name is added, whatever parameters are bound
\* and local consts declared in the function scope.
C8_CallerEnvUnchanged == [][pc = "findReturnedObject" => env' = env]_vars

\* the function scope got a parameter and a local const the caller lacks
C8_Witness ==
    /\ pc = "analysed"
    /\ \E p \in DOMAIN ScopeOfNode : ScopeOfNode[p].type = "value" /\ p \notin DOMAIN env
    /\ \E c \in DOMAIN ScopeOfNode : ScopeOfNode[c].type = "expr" /\ c \notin DOMAIN env

ShorthandsOfNode ==
    {j \in 1..Len(node.properties) :
        /\ node.properties[j].kind = "ShorthandPropertyAssignment"
        /\ \A m \in (j + 1)..Len(node.properties) :
              node.properties[m].kind \in {"PropertyAssignment", "ShorthandPropertyAssignment"}
                  => getPropName(node.properties[m].name) # node.properties[j].name.text}

\* C9: a shorthand property {k} reduces to the value of a value-kind binding
\* of k, else to the evaluation of an expr-kind binding of k, else to the
\* marker <k>.
C9_ShorthandProperty ==
    (pc = "evaluated" /\ node.kind = "ObjectLiteralExpression") =>
        \A j \in ShorthandsOfNode :
            LET k == node.properties[j].name.text
                bound == k \in DOMAIN env
                viaExpr == evalValue(env[k].node, env, 3)
            IN  IF bound /\ env[k].type = "value"
                THEN ~Thrown(result) => Get(result.val, k) = env[k].value
                ELSE IF bound /\ env[k].type = "expr"
                THEN IF Thrown(viaExpr) THEN Thrown(result)
                     ELSE ~Thrown(result) => Get(result.val, k) = viaExpr.val
                ELSE ~Thrown(result) => Get(result.val, k) = Str(<<"<">> \o k \o <<">">>)

\* a shorthand property whose name has a value-kind binding
C9_Witness ==
    /\ pc = "evaluated" /\ node.kind = "ObjectLiteralExpression" /\ ~Thrown(result)
    /\ \E j \in ShorthandsOfNode :
          LET k == node.properties[j].name.text
          IN  k \in DOMAIN env /\ env[k].type = "value" /\ Get(result.val, k) = env[k].value

\* The statically known length of the first argument of Array.from.
StaticLength(len) ==
    IF len.kind = "ArrayLiteralExpression" THEN Len(len.elements)
    ELSE IF len.kind = "ObjectLiteralExpression"
    THEN LET j == CHOOSE m \in 1..Len(len.properties) :
                      getPropName(len.properties[m].name) = s_length
         IN  evalValue(len.properties[j].initializer, env, 1).val.n
    ELSE evalValue(len, env, 1).val.n

IsIndexedArrayFrom ==
    /\ node.kind = "CallExpression"
    /\ isArrayFromCall(node)
    /\ Len(node.arguments) = 2
    /\ node.arguments[1] \in StaticLengths
    /\ node.arguments[2] \in IndexProducers

\* C10: Array.from(first, producer), with a first argument of statically
\* known length N and a producer returning {index: i} for its index
\* parameter i, evaluates to an array of exactly N elements whose i-th
\* element (from 0) is {index: i}.
C10_ArrayFromIndex ==
    (pc = "evaluated" /\ IsIndexedArrayFrom) =>
        /\ ~Thrown(result)
        /\ result.val.t = "array"
        /\ Len(result.val.xs) = StaticLength(node.arguments[1])
        /\ \A j \in 1..Len(result.val.xs) :
              result.val.xs[j] = Obj(<<[k |-> n_index, v |-> Num(j - 1)]>>)

C10_Witness ==
    /\ pc = "evaluated"
    /\ IsIndexedArrayFrom
    /\ Len(result.val.xs) = MaxLength
    /\ result.val.xs[MaxLength] = Obj(<<[k |-> n_index, v |-> Num(MaxLength - 1)]>>)

(***************************************************************************)
(* The zod mapper as a state machine: schemaFromZodExpression on a chain,  *)
(* and mapZodSchemas one declaration at a time.                            *)
(***************************************************************************)
ZodInit ==
    /\ OthersIdle
    /\ fileExt = "ts" /\ jsonParses = FALSE /\ preview = NoPreview /\ paramValues = <<>>
    /\ result = ZodNull
    /\ index = 0 /\ schemas = <<>> /\ warnings = <<>> /\ files = <<>>
    /\ \/ /\ pc = "schemaFromZodExpression"
          /\ node \in ZodChains
          /\ env \in ZodEnvs
          /\ source = NoSource /\ tsLoads = TRUE
       \/ /\ pc = "mapZodSchemas"
          /\ source \in ZodSources
          /\ tsLoads \in BOOLEAN
          /\ node = NoNode /\ env = EmptyEnv

\* schemaFromZodExpression(node, ts, env)
SchemaFromZodExpression ==
    /\ pc = "schemaFromZodExpression"
    /\ result' = schemaFromZodExpression(node, env)
    /\ pc' = "reduced"
    /\ UNCHANGED <<fileExt, source, tsLoads, jsonParses, preview, node, env, paramValues,
                   index, schemas, warnings, files, otherVars>>

\* mapZodSchemas without the parser: {}
MapZodUnavailable ==
    /\ pc = "mapZodSchemas" /\ ~tsLoads
    /\ pc' = "mapped"
    /\ UNCHANGED <<fileExt, source, tsLoads, jsonParses, preview, node, env, paramValues,
                   result, index, schemas, warnings, files, otherVars>>

\* one pass of the loop of mapZodSchemas
MapZodDeclaration ==
    /\ pc = "mapZodSchemas" /\ tsLoads
    /\ index < Len(ZodDeclarations(source))
    /\ LET decl == ZodDeclarations(source)[index + 1]
           record(parsed) ==
               /\ result' = parsed
               /\ schemas' = RecordDeclaration([schemas |-> schemas, env |-> env],
                                               decl.name.text, parsed).schemas
               /\ env' = RecordDeclaration([schemas |-> schemas, env |-> env],
                                           decl.name.text, parsed).env
       IN  /\ node' = decl.initializer
           /\ record(schemaFromZodExpression(decl.initializer, env))
    /\ index' = index + 1
    /\ UNCHANGED <<pc, fileExt, source, tsLoads, jsonParses, preview, paramValues, warnings,
                   files, otherVars>>

\* return schemas
MapZodReturn ==
    /\ pc = "mapZodSchemas" /\ tsLoads
    /\ index = Len(ZodDeclarations(source))
    /\ pc' = "mapped"
    /\ UNCHANGED <<fileExt, source, tsLoads, jsonParses, preview, node, env, paramValues,
                   result, index, schemas, warnings, files, otherVars>>

ZodNext == SchemaFromZodExpression \/ MapZodUnavailable \/ MapZodDeclaration \/ MapZodReturn

ZodSpec == ZodInit /\ [][ZodNext]_vars

(***************************************************************************)
(* Properties of the zod mapper                                            *)
(***************************************************************************)
KeysOf(obj) == [i \in 1..Len(obj.xs) |-> obj.xs[i].k]

\* node is z.object(shape) with an object literal for the shape
IsZodObjectCall ==
    /\ node.kind = "CallExpression"
    /\ node.expression.kind = "PropertyAccessExpression"
    /\ node.expression.expression = Identifier(Method.z)
    /\ node.expression.name.text = Method.object
    /\ Len(node.arguments) >= 1
    /\ node.arguments[1].kind = "ObjectLiteralExpression"

ShapeOfNode == node.arguments[1].properties
KeyAt(i) == propertyNameText(ShapeOfNode[i].name)
FragmentAt(i) == schemaFromZodExpression(ShapeOfNode[i].initializer, env)
\* the i-th property of the shape has a static name and reduces to a fragment
Reduces(i) ==
    /\ ShapeOfNode[i].kind = "PropertyAssignment"
    /\ KeyAt(i) # <<>>
    /\ ~FragmentAt(i).isNull
Reducing == {i \in 1..Len(ShapeOfNode) : Reduces(i)}
RequiredIndices ==
    SelectSeq([i \in 1..Len(ShapeOfNode) |-> i],
              LAMBDA i : Reduces(i) /\ ~FragmentAt(i).optional)
ExpectedRequired == [j \in 1..Len(RequiredIndices) |-> Str(KeyAt(RequiredIndices[j]))]

\* z.object({ id: z.string(), name: z.string().optional() })
UserShape ==
    Z(Method.object,
      <<Shape(<<PropertyAssignment(Identifier(n_id), ZString),
                PropertyAssignment(Identifier(n_name),
                                   Chain(ZString, Method.optional, <<>>))>>)>>)
UserSchema ==
    Obj(<<KV(Keyword.type, Str(TypeName.object)),
          KV(Keyword.properties,
             Obj(<<KV(n_id, TypeSchema(TypeName.string)),
                   KV(n_name, TypeSchema(TypeName.string))>>)),
          KV(Keyword.required, Arr(<<Str(n_id)>>))>>)

\* C11: z.object(shape) reduces to { type: 'object', properties, required }:
\* properties holds the schema of every property of the shape that has a
\* static name and reduces (the last one of a repeated key), required lists
\* in declaration order the keys of those whose fragment is not optional and
\* is left out when there is none; the shape { id: z.string(),
\* name: z.string().optional() } gives required = ['id'].
C11_ObjectShape ==
    (pc = "reduced" /\ IsZodObjectCall) =>
        /\ ~result.isNull
        /\ ~result.optional
        /\ KeysOf(result.schema) =
               <<Keyword.type, Keyword.properties>>
               \o (IF ExpectedRequired # <<>> THEN <<Keyword.required>> ELSE <<>>)
        /\ Get(result.schema, Keyword.type) = Str(TypeName.object)
        /\ LET properties == Get(result.schema, Keyword.properties)
           IN  /\ properties.t = "object"
               /\ {properties.xs[i].k : i \in 1..Len(properties.xs)} =
                      {KeyAt(i) : i \in Reducing}
               /\ Len(properties.xs) = Cardinality({KeyAt(i) : i \in Reducing})
               /\ \A i \in Reducing :
                      (\A j \in Reducing : j > i => KeyAt(j) # KeyAt(i))
                          => Get(properties, KeyAt(i)) = FragmentAt(i).schema
        /\ ExpectedRequired # <<>> =>
               Get(result.schema, Keyword.required) = Arr(ExpectedRequired)
        /\ node = UserShape => result.schema = UserSchema

\* the shape of the example has been reduced
C11_Witness ==
    /\ pc = "reduced"
    /\ node = UserShape
    /\ result.schema = UserSchema

\* node is chain.method(...), and the fragment of the chain
IsMethodCall ==
    node.kind = "CallExpression" /\ node.expression.kind = "PropertyAccessExpression"
MethodOfNode == node.expression.name.text
BaseOfNode == schemaFromZodExpression(node.expression.expression, env)
\* the methods schemaFromZodExpression treats in a way of their own
OwnTreatment ==
    {Method.optional, Method.nullable, Method.nullish, Method.extend, Method.merge,
     Method.pipe}

\* C12: when a chain reduces to a fragment, the chain followed by optional()
\* reduces to the same schema with optional = true, and the chain followed
\* by transform, refine, superRefine, default, catch, brand, describe or a
\* method the mapper does not know reduces to the same fragment, flag
\* included; none of them makes the chain fail.
C12_Modifiers ==
    (pc = "reduced" /\ IsMethodCall /\ ~BaseOfNode.isNull) =>
        /\ MethodOfNode = Method.optional =>
               result = SchemaWithFlags(BaseOfNode.schema, TRUE)
        /\ MethodOfNode \notin OwnTreatment =>
               /\ ~result.isNull
               /\ result.schema = BaseOfNode.schema
               /\ result.optional = BaseOfNode.optional

\* an optional chain has gone through a method the mapper does not know and
\* has kept its flag
C12_Witness ==
    /\ pc = "reduced"
    /\ node = Chain(Chain(ZString, Method.optional, <<>>), Method.min, <<>>)
    /\ result = SchemaWithFlags(TypeSchema(TypeName.string), TRUE)

\* node is base.extend(...) or base.merge(...), and the fragment of the other side
IsExtendOrMerge == IsMethodCall /\ MethodOfNode \in {Method.extend, Method.merge}
OtherOfNode ==
    LET arg == ArgAt(node.arguments, 1)
    IN  IF MethodOfNode = Method.merge THEN OfArg(arg, env)
        ELSE IF arg.kind = "ObjectLiteralExpression" THEN schemaFromZodObjectShape(arg, env)
        ELSE ZodNull
BothObjectSchemas ==
    /\ ~BaseOfNode.isNull /\ isObjectSchema(BaseOfNode.schema)
    /\ ~OtherOfNode.isNull /\ isObjectSchema(OtherOfNode.schema)
\* position of the first occurrence of x in xs
FirstAt(xs, x) == CHOOSE i \in 1..Len(xs) : xs[i] = x /\ \A j \in 1..(i - 1) : xs[j] # x
Elements(xs) == {xs[i] : i \in 1..Len(xs)}

IsExtendOfA ==
    \/ node = Chain(ObjectA, Method.extend, <<ShapeF>>)
    \/ /\ node = Chain(Id(n_A), Method.extend, <<ShapeF>>)
       /\ n_A \in DOMAIN env
       /\ env[n_A] = schemaFromZodExpression(ObjectA, EmptyEnv)
ExtendedA(required) ==
    Obj(<<KV(Keyword.type, Str(TypeName.object)),
          KV(Keyword.properties,
             Obj(<<KV(n_id, TypeSchema(TypeName.string)),
                   KV(n_f, TypeSchema(TypeName.string))>>)),
          KV(Keyword.required, Arr(required))>>)

\* C14 as stated: A.extend({ f: z.string() }) has properties { id, f } and
\* required = ["id"].
C14_ExtendExampleAsStated ==
    (pc # "schemaFromZodExpression" /\ IsExtendOfA) =>
        result.schema = ExtendedA(<<Str(n_id)>>)

\* C14: for A = z.object({ id: z.string() }), A.extend({ f: z.string() }) has
\* properties { id, f } in that order and required = ["id", "f"], the keys in
\* first-seen order: f is not optional, so it is required.
C14_ExtendExample ==
    (pc # "schemaFromZodExpression" /\ IsExtendOfA) =>
        /\ ~result.isNull
        /\ result.schema = ExtendedA(<<Str(n_id), Str(n_f)>>)

\* mapZodSchemas has recorded B = A.extend({ f: z.string() }) after A
C14_Witness ==
    /\ pc = "mapped"
    /\ IsExtendOfA
    /\ node.expression.expression = Id(n_A)
    /\ KeysOf(Obj(schemas)) = <<n_A, n_B>>
    /\ Get(Obj(schemas), n_B) = ExtendedA(<<Str(n_id), Str(n_f)>>)

\* the names used in an expression as the root of a chain or in an argument
RECURSIVE IdentifiersOf(_)
IdentifiersOf(e) ==
    CASE e.kind = "Identifier" -> IF e.text = Method.z THEN {} ELSE {e.text}
      [] e.kind = "PropertyAccessExpression" -> IdentifiersOf(e.expression)
      [] e.kind = "CallExpression" ->
           IdentifiersOf(e.expression)
           \cup UNION {IdentifiersOf(e.arguments[i]) : i \in 1..Len(e.arguments)}
      [] e.kind = "ArrayLiteralExpression" ->
           UNION {IdentifiersOf(e.elements[i]) : i \in 1..Len(e.elements)}
      [] e.kind = "ObjectLiteralExpression" ->
           UNION {IF e.properties[i].kind = "PropertyAssignment"
                  THEN IdentifiersOf(e.properties[i].initializer) ELSE {} :
                  i \in 1..Len(e.properties)}
      [] OTHER -> {}

\* an identifier, or method calls on one
RECURSIVE IsIdentifierChain(_)
IsIdentifierChain(e) ==
    \/ e.kind = "Identifier" /\ e.text # Method.z
    \/ /\ e.kind = "CallExpression"
       /\ e.expression.kind = "PropertyAccessExpression"
       /\ IsIdentifierChain(e.expression.expression)
RECURSIVE RootOf(_)
RootOf(e) == IF e.kind = "Identifier" THEN e.text ELSE RootOf(e.expression.expression)

\* the names recorded so far
Recorded == Elements(KeysOf(Obj(schemas)))
DeclarationAt(i) == ZodDeclarations(source)[i]

\* What mapZodSchemas has recorded, in the map and in the environment alike,
\* are names of declarations it has already passed, and it returns only when
\* it has passed them all.
OnlyEarlierRecorded ==
    pc \in {"mapZodSchemas", "mapped"} =>
        /\ index <= Len(ZodDeclarations(source))
        /\ DOMAIN env = Recorded
        /\ \A name \in Recorded :
               /\ \E i \in 1..index : DeclarationAt(i).name.text = name
               /\ ~env[name].isNull /\ env[name].schema = Get(Obj(schemas), name)
        /\ (pc = "mapped" /\ tsLoads) => index = Len(ZodDeclarations(source))

\* One pass of the loop: on the next declaration in source order, recording
\* from what earlier passes recorded.
StepInOrder ==
    (pc = "mapZodSchemas" /\ index' # index) =>
        LET decl == DeclarationAt(index + 1)
            init == decl.initializer
            name == decl.name.text
            after == Obj(schemas')
            before == Obj(schemas)
        IN  /\ index' = index + 1
            /\ node' = init
            /\ Recorded \subseteq Elements(KeysOf(after))
            /\ \A k \in Recorded \ {name} : Get(after, k) = Get(before, k)
            /\ IsIdentifierChain(init) =>
                   /\ RootOf(init) \in Recorded =>
                          HasKey(after, name) /\ Get(after, name) = result'.schema
                   /\ IdentifiersOf(init) \cap Recorded = {} =>
                          schemas' = schemas /\ env' = env /\ result'.isNull
            /\ (init.kind = "Identifier" /\ init.text \in Recorded) =>
                   Get(after, name) = Get(before, init.text)
            /\ \A x \in {n_A, n_B, n_C} :
                   init = Z(Method.array, <<Id(x)>>) =>
                       Get(Get(after, name), Keyword.items) =
                           IF x \in Recorded THEN Get(before, x) ELSE EmptySchema

\* C15: mapZodSchemas reduces the declarations one by one in source order.
\* A step on a chain rooted at an identifier records the declaration when
\* the root was recorded by an earlier step, and records nothing when none
\* of the names it uses was; a bare identifier gets the schema recorded for
\* that name, and an identifier given to z.array gets it as `items` only
\* when it was recorded earlier.  What is recorded are names of declarations
\* already passed, so that a step never depends on a later declaration, and
\* no step removes a name.
C15_SourceOrder == []OnlyEarlierRecorded /\ [][StepInOrder]_vars

\* A, B = A.extend({ f }) and then A = B have been reduced in this order: the
\* second A is the schema recorded for B
C15_Witness ==
    /\ pc = "mapped"
    /\ index = 3
    /\ DeclarationAt(1) = ZodDecl(n_A, ObjectA)
    /\ DeclarationAt(2) = ZodDecl(n_B, Chain(Id(n_A), Method.extend, <<ShapeF>>))
    /\ DeclarationAt(3) = ZodDecl(n_A, Id(n_B))
    /\ KeysOf(Obj(schemas)) = <<n_A, n_B>>
    /\ Get(Obj(schemas), n_A) = ExtendedA(<<Str(n_id), Str(n_f)>>)

(***************************************************************************)
(* The declaration files as a state machine: parseDtsSource on a file, and *)
(* the import command (index.ts) one picked file at a time.                *)
(***************************************************************************)
DtsInit ==
    /\ OthersIdle
    /\ fileExt = "ts" /\ jsonParses = FALSE /\ preview = NoPreview /\ paramValues = <<>>
    /\ node = NoNode /\ env = EmptyEnv
    /\ result = DtsParseResult(<<>>, <<>>)
    /\ index = 0 /\ schemas = <<>> /\ warnings = <<>>
    /\ tsLoads \in BOOLEAN
    /\ \/ /\ pc = "parseDtsSource"
          /\ source \in DtsSources
          /\ files = <<>>
       \/ /\ pc = "importDts"
          /\ source = NoSource
          /\ files \in FileLists(MaxFiles) \ {<<>>}

\* parseDtsSource(sourceText)
ParseDtsSource ==
    /\ pc = "parseDtsSource"
    /\ result' = parseDtsSource(source, tsLoads)
    /\ pc' = "parsed"
    /\ UNCHANGED <<fileExt, source, tsLoads, jsonParses, preview, node, env, paramValues,
                   index, schemas, warnings, files, otherVars>>

\* mokup.importDts: one pass of the loop over the picked files
ImportDtsFile ==
    /\ pc = "importDts"
    /\ index < Len(files)
    /\ LET merge(r) ==
               /\ result' = r
               /\ schemas' = ImportFile([schemas |-> schemas, warnings |-> warnings],
                                        files[index + 1].label, r).schemas
               /\ warnings' = ImportFile([schemas |-> schemas, warnings |-> warnings],
                                         files[index + 1].label, r).warnings
       IN  merge(parseDtsFile(files[index + 1], tsLoads))
    /\ index' = index + 1
    /\ UNCHANGED <<pc, fileExt, source, tsLoads, jsonParses, preview, node, env, paramValues,
                   files, otherVars>>

\* the loop is over
ImportDtsDone ==
    /\ pc = "importDts"
    /\ index = Len(files)
    /\ pc' = "imported"
    /\ UNCHANGED <<fileExt, source, tsLoads, jsonParses, preview, node, env, paramValues,
                   result, index, schemas, warnings, files, otherVars>>

DtsNext == ParseDtsSource \/ ImportDtsFile \/ ImportDtsDone

DtsSpec == DtsInit /\ [][DtsNext]_vars

(***************************************************************************)
(* Properties of the declaration files                                     *)
(***************************************************************************)
IsTypeDeclaration(stmt) == stmt.kind \in {"InterfaceDeclaration", "TypeAliasDeclaration"}
\* the type names the file declares, anywhere
DeclaredTypeNames ==
    {source.statements[i].name.text :
         i \in {j \in 1..Len(source.statements) : IsTypeDeclaration(source.statements[j])}}
\* the i-th statement is `type X = Y`, the last declaration of X in the file
IsLastAliasOfReference(i) ==
    LET stmt == source.statements[i]
    IN  /\ stmt.kind = "TypeAliasDeclaration"
        /\ stmt.type.kind = "TypeReference"
        /\ stmt.type.typeName \notin {RefName.Array, RefName.ReadonlyArray, RefName.Record}
        /\ \A j \in (i + 1)..Len(source.statements) :
               IsTypeDeclaration(source.statements[j])
                   => source.statements[j].name.text # stmt.name.text
        /\ ~HasKey(Obj(mapZodSchemas(source, tsLoads)), stmt.name.text)

\* C16: in parseDtsSource a reference to a type name declared anywhere in
\* the file, before or after the referring declaration or by that
\* declaration itself, reduces to { $ref: '#/components/schemas/<name>' }, and
\* only a name declared nowhere in the file reduces to the empty fragment and
\* records a warning.
C16_ReferencesResolveAnywhere ==
    (pc = "parsed" /\ tsLoads) =>
        /\ \A j \in 1..Len(result.warnings) :
               (/\ result.warnings[j][1] = "Unsupported type node: "
                /\ result.warnings[j][2].kind = "TypeReference")
                   => result.warnings[j][2].typeName \notin DeclaredTypeNames
        /\ \A i \in 1..Len(source.statements) :
               IsLastAliasOfReference(i) =>
                   LET stmt == source.statements[i]
                   IN  IF stmt.type.typeName \in DeclaredTypeNames
                       THEN Get(Obj(result.schemas), stmt.name.text) =
                                RefSchema(stmt.type.typeName)
                       ELSE /\ Get(Obj(result.schemas), stmt.name.text) = EmptySchema
                            /\ \E j \in 1..Len(result.warnings) :
                                   result.warnings[j] =
                                       <<"Unsupported type node: ", stmt.type>>

\* what the i-th picked file produced, and the files that produced a name
ProducedBy(i) == Obj(parseDtsFile(files[i], tsLoads).schemas)
ProducersOf(name) == {i \in 1..Len(files) : HasKey(ProducedBy(i), name)}
LastOf(S) == CHOOSE i \in S : \A j \in S : j <= i
\* the warnings of an override of the name
OverrideWarnings(name) ==
    {j \in 1..Len(warnings) :
         /\ Len(warnings[j]) = 4
         /\ warnings[j][2] = ": schema "
         /\ warnings[j][3] = name}
\* the definitions of the name in the i-th file: its interfaces and type
\* aliases, and its zod schema
DefinitionsIn(i, name) ==
    Cardinality({j \in 1..Len(files[i].source.statements) :
                     /\ IsTypeDeclaration(files[i].source.statements[j])
                     /\ files[i].source.statements[j].name.text = name})
    + (IF HasKey(Obj(mapZodSchemas(files[i].source, tsLoads)), name) THEN 1 ELSE 0)
RECURSIVE DefinitionsUpTo(_, _)
DefinitionsUpTo(i, name) ==
    IF i = 0 THEN 0 ELSE DefinitionsUpTo(i - 1, name) + DefinitionsIn(i, name)

\* C17: after the import of several declaration files, a schema name that
\* more than one file produced has the definition of the last file that
\* produced it, with one warning for each override, and no definition of a
\* name has been dropped without a warning: the warnings of a name are at
\* least its definitions but the one kept.
C17_LastWinsWithWarning ==
    (pc = "imported" /\ tsLoads) =>
        \A name \in {n_A, n_B, n_C} :
            /\ ProducersOf(name) # {} =>
                   /\ Get(Obj(schemas), name) = Get(ProducedBy(LastOf(ProducersOf(name))), name)
                   /\ Cardinality(OverrideWarnings(name)) = Cardinality(ProducersOf(name)) - 1
            /\ DefinitionsUpTo(Len(files), name) >= 1 =>
                   Cardinality(OverrideWarnings(name)) >= DefinitionsUpTo(Len(files), name) - 1

(***************************************************************************)
(* The entries of a config file: parseEntriesFromViteConfig on each config *)
(* file considered, with and without the TypeScript parser                 *)
(***************************************************************************)
EntriesInit ==
    /\ OthersIdle
    /\ fileExt = "ts" /\ jsonParses = FALSE /\ preview = NoPreview /\ paramValues = <<>>
    /\ node = NoNode /\ env = EmptyEnv
    /\ result = EntriesParseResult(<<>>, <<>>)
    /\ index = 0 /\ schemas = <<>> /\ warnings = <<>> /\ files = <<>>
    /\ tsLoads \in BOOLEAN
    /\ pc = "parseEntriesFromViteConfig"
    /\ source \in ConfigFiles

\* parseEntriesFromViteConfig(content)
ParseEntriesFromViteConfig ==
    /\ pc = "parseEntriesFromViteConfig"
    /\ result' = parseEntriesFromViteConfig(source, tsLoads)
    /\ pc' = "parsed"
    /\ UNCHANGED <<fileExt, source, tsLoads, jsonParses, preview, node, env, paramValues,
                   index, schemas, warnings, files, otherVars>>

EntriesNext == ParseEntriesFromViteConfig

EntriesSpec == EntriesInit /\ [][EntriesNext]_vars

(***************************************************************************)
(* Properties of the entries of a config file (C18, C19, C20)              *)
(***************************************************************************)
\* C18: whenever parseEntriesFromViteConfig returns an empty entries list,
\* its warnings list is not empty, with the parser and without it, whatever
\* the config text holds.
C18_EmptyEntriesWarn ==
    (pc = "parsed" /\ result.entries = <<>>) => result.warnings # <<>>
\* a config whose entries array is empty, parsed with the parser available:
\* the only warning is the one of the scan that found no usable dir
C18_Witness ==
    /\ pc = "parsed"
    /\ tsLoads
    /\ result.entries = <<>>
    /\ result.warnings = <<<<"Entries detected but no usable dir values were parsed.">>>>

\* the expression a config file exports, and the first plugin it lists
ConfigOf(f) == f.statements[Len(f.statements)].expression
IsOption(e, name) ==
    /\ e.kind = "ObjectLiteralExpression"
    /\ e.properties # <<>>
    /\ e.properties[1].kind = "PropertyAssignment"
    /\ e.properties[1].name.text = name
FirstPlugin(f) == ConfigOf(f).properties[1].initializer.elements[1]
\* the config is a bare `entries: ...`; it lists a call mokup({ entries: ... })
IsBareEntries(f) == IsOption(ConfigOf(f), Word.entries)
IsPluginEntries(f) ==
    /\ IsOption(ConfigOf(f), n_plugins)
    /\ ConfigOf(f).properties[1].initializer.elements # <<>>
    /\ FirstPlugin(f).expression = Identifier(Word.mokup)
    /\ Len(FirstPlugin(f).arguments) = 1
    /\ IsOption(FirstPlugin(f).arguments[1], Word.entries)
\* the value written for the entries option
EntriesValueOf(f) ==
    IF IsBareEntries(f) THEN ConfigOf(f).properties[1].initializer
    ELSE FirstPlugin(f).arguments[1].properties[1].initializer
\* the entries are written as an array
HasEntriesList(f) ==
    /\ IsBareEntries(f) \/ IsPluginEntries(f)
    /\ EntriesValueOf(f).kind = "ArrayLiteralExpression"
\* the value of the literal written for a key of an entry object
Written(e, key) ==
    LET at == {i \in 1..Len(e.properties) : e.properties[i].name.text = key}
        init == e.properties[CHOOSE i \in at : TRUE].initializer
    IN  IF at = {} THEN Undefined
        ELSE CASE init.kind = "StringLiteral" -> Str(init.text)
               [] init.kind = "TrueKeyword" -> Bool(TRUE)
               [] init.kind = "FalseKeyword" -> Bool(FALSE)
               [] OTHER -> Undefined
WrittenEntry(e) ==
    Entry(Written(e, Word.dir), Written(e, Word.prefix), Written(e, Word.watch), Written(e, Word.mode))

\* C20: for a config whose entries are an array of object literals with
\* literal dir, prefix, watch and mode, written as a bare `entries: [...]` or
\* in the first object argument of a mokup(...) call, the text scanner used
\* without the parser returns what the syntax tree path returns with it: one
\* entry per array element, in order, with the dir, prefix, watch and mode
\* written (prefix absent where none is written).
C20_ScannerMatchesAst ==
    (/\ pc = "parsed"
     /\ ~tsLoads
     /\ HasEntriesList(source)
     /\ \A i \in 1..Len(EntriesValueOf(source).elements) :
            EntriesValueOf(source).elements[i] \in LiteralEntries)
        => /\ result.entries = [i \in 1..Len(EntriesValueOf(source).elements) |->
                                   WrittenEntry(EntriesValueOf(source).elements[i])]
           /\ IsPluginEntries(source) =>
                  result.entries = parseEntriesFromViteConfigAst(source, TRUE).entries

\* an entry object without a static dir: no dir key, an empty dir, a call
\* that is no path call, or a name no const binds
Dirless(e) ==
    \/ \A i \in 1..Len(e.properties) : e.properties[i].name.text # Word.dir
    \/ \E i \in 1..Len(e.properties) :
           /\ e.properties[i].name.text = Word.dir
           /\ e.properties[i].initializer
                  \in {StringLiteral(<<>>), CallOf(n_getDir, <<>>), Identifier(n_u)}
\* the warnings that record an entry object without a dir
DirWarnings(ws) ==
    {i \in 1..Len(ws) : ws[i] \in {<<"Entry object has no static dir value.">>,
                                   <<"Entry object has no string dir literal, skipping.">>}}
WrittenEntries(elements) == [i \in 1..Len(elements) |-> WrittenEntry(elements[i])]

\* C19: in an entries list, each entry object without a static dir is
\* skipped and recorded as one warning, and the entries with a literal dir
\* are all returned, in the order written; with the parser (syntax tree
\* path) and without it (text scan).
C19_SkipsDirlessEntries ==
    (/\ pc = "parsed"
     /\ HasEntriesList(source)
     /\ \A i \in 1..Len(EntriesValueOf(source).elements) :
            \/ EntriesValueOf(source).elements[i] \in LiteralEntries
            \/ /\ EntriesValueOf(source).elements[i] \in OtherEntries
               /\ Dirless(EntriesValueOf(source).elements[i]))
        => /\ result.entries =
                  WrittenEntries(SelectSeq(EntriesValueOf(source).elements, LAMBDA e : ~Dirless(e)))
           /\ Cardinality(DirWarnings(result.warnings)) =
                  Len(SelectSeq(EntriesValueOf(source).elements, Dirless))

(***************************************************************************)
(* Further properties of the zod mapper (C27, C28), under ZodSpec          *)
(***************************************************************************)
\* e is chain.m(...)
IsChainOf(e, m) ==
    /\ e.kind = "CallExpression"
    /\ e.expression.kind = "PropertyAccessExpression"
    /\ e.expression.name.text = m
\* the chain before the last method of e, and before its last two methods
ChainBefore(e) == e.expression.expression
\* node is C.nullish(), C.optional().nullable() or C.nullable().optional()
IsNullishWriting ==
    \/ IsChainOf(node, Method.nullish)
    \/ IsChainOf(node, Method.nullable) /\ IsChainOf(ChainBefore(node), Method.optional)
    \/ IsChainOf(node, Method.optional) /\ IsChainOf(ChainBefore(node), Method.nullable)
\* the fragment of C
NullishBase ==
    schemaFromZodExpression(
        IF IsChainOf(node, Method.nullish) THEN ChainBefore(node)
        ELSE ChainBefore(ChainBefore(node)), env)

\* C27: when a chain C reduces to a fragment with schema S, C.nullish(),
\* C.optional().nullable() and C.nullable().optional() all reduce to the
\* fragment with schema anyOf[S, {type: 'null'}] and optional = true.
C27_NullishWritings ==
    (pc = "reduced" /\ IsNullishWriting /\ ~NullishBase.isNull) =>
        result = NullableOf(NullishBase, TRUE)

\* C28: after base.extend(shape) or base.merge(other) of two object
\* schemas, every key of required is a key of properties, and a key that
\* the extension defines without requiring it (its fragment is marked
\* optional) is not in the merged required, even when the base required it.
C28_RequiredFollowsExtension ==
    (pc = "reduced" /\ IsExtendOrMerge /\ ~BaseOfNode.isNull /\ BothObjectSchemas) =>
        LET other == PropertiesOf(OtherOfNode.schema)
            properties == Get(result.schema, Keyword.properties)
            required == RequiredOf(result.schema)
        IN  /\ \A i \in 1..Len(required) : HasKey(properties, required[i].s)
            /\ \A i \in 1..Len(other) :
                   Str(other[i].k) \notin Elements(RequiredOf(OtherOfNode.schema))
                       => Str(other[i].k) \notin Elements(required)

(***************************************************************************)
(* Exports: one base document, exported again and again with other         *)
(* routes, schemas and strategies.  Only the last document returned is     *)
(* kept: heap holds the base's path items first, then that document's own. *)
(***************************************************************************)
ExportInit ==
    /\ fileExt = "ts" /\ source = NoSource /\ tsLoads = TRUE /\ jsonParses = FALSE
    /\ preview = NoPreview /\ paramValues = <<>> /\ node = NoNode /\ env = EmptyEnv
    /\ index = 0 /\ schemas = <<>> /\ warnings = <<>> /\ files = <<>>
    /\ result = NotGiven
    /\ PlanIdle /\ WriterIdle /\ RunnerIdle /\ PreviewIdle
    /\ pc = "exportMokupToOpenApi"
    /\ \E input \in ExportInputs :
           /\ options = [base |-> input.base, title |-> NotGiven, version |-> NotGiven,
                         routes |-> NotGiven, schemas |-> NotGiven,
                         mergeStrategy |-> NotGiven]
           /\ heap = input.objects

\* the path items the base holds
BaseObjects ==
    SubSeq(heap, 1, Cardinality(DOMAIN Default(OfBase(options.base, "paths"), <<>>)))

\* exportMokupToOpenApi({ base, routes, schemas, mergeStrategy })
ExportMokupToOpenApi ==
    /\ pc \in {"exportMokupToOpenApi", "exported"}
    /\ \E routes \in {NotGiven} \cup {Given(r) : r \in RouteLists},
          given \in MokupSchemas, mergeStrategy \in MergeStrategies :
           /\ options' = [options EXCEPT !.routes = routes, !.schemas = given,
                                         !.mergeStrategy = mergeStrategy]
           /\ LET Returned(export) ==
                      /\ result' = Given(export.doc)
                      /\ heap' = export.objects
              IN  Returned(exportMokupToOpenApi(options', BaseObjects))
    /\ pc' = "exported"
    /\ UNCHANGED <<scanVars, route, entry, filePath, writerVars, runnerVars, previewVars>>

ExportNext == ExportMokupToOpenApi

ExportSpec == ExportInit /\ [][ExportNext]_vars

(***************************************************************************)
(* Properties of the exporter (C21, C29)                                   *)
(***************************************************************************)
\* the operations of a document: those of its path items, by path and method
OperationsOf(paths, objects) ==
    [p \in DOMAIN paths |-> objects[paths[p]]]
HasOperation(operations, p, m) ==
    p \in DOMAIN operations /\ m \in DOMAIN operations[p]
\* the operations of the base document, as they are now
BaseOperations ==
    OperationsOf(Default(OfBase(options.base, "paths"), <<>>), heap)
NamedBy(routes, p, m) == \E i \in 1..Len(routes) : routes[i].path = p /\ routes[i].method = m
\* what C21 says of an export of `routes` under `strategy` that found the
\* operations `before` in the base and returned the operations `after`
ExportedAsStated(before, after, routes, strategy) ==
    \A p \in RoutePaths, m \in RouteMethods :
        IF NamedBy(routes, p, m)
        THEN /\ HasOperation(after, p, m)
             /\ after[p][m] =
                    IF HasOperation(before, p, m) /\ strategy = Strategy.merge
                    THEN before[p][m] ELSE DefaultOperation
        ELSE HasOperation(before, p, m) =>
                 HasOperation(after, p, m) /\ after[p][m] = before[p][m]

\* C21: in the document exportMokupToOpenApi returns, a route whose
\* operation exists in the base keeps the base operation under 'merge' and
\* has the default operation (200: OK) under 'overwrite'; a route without a
\* base operation has the default operation under both; base operations
\* that no route names are kept under both.
C21_MergeOrOverwrite ==
    [][pc' = "exported" =>
          ExportedAsStated(BaseOperations,
                           OperationsOf(result'[1].paths, heap'),
                           Default(options'.routes, <<>>),
                           Default(options'.mergeStrategy, Strategy.merge))]_vars

\* GET /users of the base was replaced under 'overwrite' while POST /users,
\* which no route names, was kept
C21_Witness ==
    /\ pc = "exported"
    /\ options.mergeStrategy = Given(Strategy.overwrite)
    /\ options.routes = Given(<<[method |-> "get", path |-> "/users"]>>)
    /\ "/users" \in DOMAIN result[1].paths
    /\ heap[result[1].paths["/users"]] =
           ("get" :> DefaultOperation) @@ ("post" :> Operation("Base"))

\* C29: exportMokupToOpenApi leaves its base document unchanged under both
\* strategies: after the call every path item and operation of base.paths
\* and every schema of base.components.schemas is what it was before.
C29_BaseUnchanged ==
    [][pc' = "exported" =>
          /\ BaseOperations' = BaseOperations
          /\ OfBase(options'.base, "schemas") = OfBase(options.base, "schemas")]_vars

(***************************************************************************)
(* A mock file is planned for a route of an entry, and read back by the    *)
(* route scan of the same entry.                                           *)
(***************************************************************************)
PlanInit ==
    /\ fileExt \in {"ts", "json"}
    /\ source = NoSource /\ tsLoads = TRUE /\ jsonParses = FALSE
    /\ preview = NoPreview /\ paramValues = <<>> /\ node = NoNode /\ env = EmptyEnv
    /\ index = 0 /\ schemas = <<>> /\ warnings = <<>> /\ files = <<>>
    /\ result = NotGiven
    /\ ExporterIdle /\ WriterIdle /\ RunnerIdle /\ PreviewIdle
    /\ route \in MokupRoutes
    /\ entry \in MokupEntries
    /\ filePath = NotGiven
    /\ pc = "routeToFilePath"

\* routeToFilePath(route, entry, packageRoot, warnings, format)
RouteToFilePath ==
    /\ pc = "routeToFilePath"
    /\ LET Returned(planned) ==
               /\ filePath' = planned.filePath
               /\ warnings' = warnings \o planned.warnings
       IN  Returned(routeToFilePath(route, entry, PackageRoot, fileExt))
    /\ pc' = "routeFromFile"
    /\ UNCHANGED <<fileExt, source, tsLoads, jsonParses, preview, node, env, paramValues,
                   result, index, schemas, files, options, heap, route, entry, writerVars,
                   runnerVars, previewVars>>

\* routeFromFile(uri.fsPath, path.join(entry.packageRoot, entry.dir), entry.prefix)
RouteFromFile ==
    /\ pc = "routeFromFile"
    /\ filePath # NotGiven
    /\ result' = routeFromFile(filePath[1], PathJoin(<<PackageRoot, entry.dir[1]>>),
                               entry.prefix)
    /\ pc' = "read"
    /\ UNCHANGED <<scanVars, options, heap, route, entry, filePath, writerVars, runnerVars,
                   previewVars>>

PlanNext == RouteToFilePath \/ RouteFromFile

PlanSpec == PlanInit /\ [][PlanNext]_vars

(***************************************************************************)
(* Property of the file paths (C30)                                        *)
(***************************************************************************)
\* C30: for every entry and every route whose path is made of literal and
\* {param} segments, the route read from the file that routeToFilePath
\* names has the route's method and path.
C30_RoundTrip ==
    pc = "read" =>
        /\ result # NotGiven
        /\ result[1].method = route.method
        /\ result[1].path = route.path

(***************************************************************************)
(* writeMockFiles(plan, options), one pass of its loop at a time; index    *)
(* is the number of planned files already passed.                          *)
(***************************************************************************)
WriteInit ==
    /\ fileExt = "ts" /\ source = NoSource /\ tsLoads = TRUE /\ jsonParses = FALSE
    /\ preview = NoPreview /\ paramValues = <<>> /\ node = NoNode /\ env = EmptyEnv
    /\ schemas = <<>> /\ warnings = <<>> /\ files = <<>>
    /\ result = NotGiven
    /\ heap = <<>> /\ PlanIdle /\ RunnerIdle /\ PreviewIdle
    /\ index = 0
    /\ applyAll = NotGiven
    /\ prompts = <<>>
    /\ \E names \in MockWritePlans : plan = [i \in 1..Len(names) |-> PlannedFile(names[i])]
    /\ disk \in Disks
    /\ options \in WriteMockOptions
    /\ pc = "writeMockFiles"

\* the frame of the writer's steps
WriterFrame ==
    UNCHANGED <<fileExt, source, tsLoads, jsonParses, preview, node, env, paramValues,
                result, schemas, warnings, files, options, heap, route, entry, filePath,
                plan, runnerVars, previewVars>>

\* a pass that shows no quick pick
WriteFile ==
    /\ pc = "writeMockFiles"
    /\ index < Len(plan)
    /\ LET Passed(pass) ==
               /\ ~pass.prompted
               /\ disk' = pass.disk
               /\ applyAll' = pass.applyAll
       IN  Passed(WriteMockFile(plan[index + 1], Default(options.conflict, Conflict.overwrite),
                                applyAll, disk, Dismissed))
    /\ index' = index + 1
    /\ pc' = IF index' = Len(plan) THEN "returned" ELSE pc
    /\ UNCHANGED prompts
    /\ WriterFrame

\* a pass that shows the quick pick for an existing file
PromptAndWriteFile ==
    /\ pc = "writeMockFiles"
    /\ index < Len(plan)
    /\ \E answer \in Answers :
           LET Passed(pass) ==
                   /\ pass.prompted
                   /\ disk' = pass.disk
                   /\ applyAll' = pass.applyAll
                   /\ prompts' = Append(prompts, [path |-> plan[index + 1].path,
                                                  action |-> answer])
                   /\ index' = IF pass.returned THEN index ELSE index + 1
                   /\ pc' = IF pass.returned \/ index' = Len(plan) THEN "returned" ELSE pc
           IN  Passed(WriteMockFile(plan[index + 1],
                                    Default(options.conflict, Conflict.overwrite),
                                    applyAll, disk, answer))
    /\ WriterFrame

WriteNext == WriteFile \/ PromptAndWriteFile

WriteSpec == WriteInit /\ [][WriteNext]_vars

(***************************************************************************)
(* Properties of the writer (C22, C26)                                     *)
(***************************************************************************)
\* the file the next pass is about
PlannedNext == plan[index + 1]
\* the pass being taken is answered at a quick pick with one of the actions
AnsweredWith(actions) ==
    Len(prompts') > Len(prompts) /\ prompts'[Len(prompts')].action \in actions
\* the disk differs only in the paths given
SameBut(paths, before, after) ==
    /\ DOMAIN after \ paths = DOMAIN before \ paths
    /\ \A q \in DOMAIN before \ paths : after[q] = before[q]

\* C22: when skip is in force for a file (configured, set by an earlier
\* Skip All, or answered for it as Skip or Skip All), the pass leaves the
\* disk as it is if the file exists: its content is unchanged and there
\* is no backup; if it does not exist it is written and nothing else
\* changes.
C22_SkipKeepsExisting ==
    [][(pc = "writeMockFiles"
        /\ (\/ options.conflict = Given(Conflict.skip)
            \/ applyAll = Given(Conflict.skip)
            \/ AnsweredWith({Pick.skip, Pick.skipAll}))) =>
          IF fileExists(disk, PlannedNext.path)
          THEN disk' = disk
          ELSE /\ SameBut({PlannedNext.path}, disk, disk')
               /\ fileExists(disk', PlannedNext.path)
               /\ disk'[PlannedNext.path] = PlannedNext.content]_vars

\* under the configured skip, a.get.ts was kept as it was, with no backup,
\* and b.get.ts was written
C22_Witness ==
    /\ pc = "returned"
    /\ options.conflict = Given(Conflict.skip)
    /\ Len(plan) = 2 /\ index = 2
    /\ DOMAIN disk = {FilePath("a.get.ts"), FilePath("b.get.ts")}
    /\ disk[FilePath("a.get.ts")] = "old"
    /\ disk[FilePath("b.get.ts")] = "new"

AllAnswers == {Pick.overwriteAll, Pick.skipAll, Pick.backupAll}
\* the 'All' answers given so far
AnsweredAll == {prompts[i].action : i \in 1..Len(prompts)} \cap AllAnswers
\* the pass handles the existing file it is about as the answer asks
HandledAs(action) ==
    CASE action \in {Pick.skip, Pick.skipAll} -> disk' = disk
      [] action \in {Pick.overwrite, Pick.overwriteAll} ->
           /\ SameBut({PlannedNext.path}, disk, disk')
           /\ disk'[PlannedNext.path] = PlannedNext.content
      [] action \in {Pick.backup, Pick.backupAll} ->
           \E q \in DOMAIN disk' \ DOMAIN disk :
               /\ q[1] = PlannedNext.path[1] /\ q[2] >= 1
               /\ disk'[q] = disk[PlannedNext.path]
               /\ SameBut({PlannedNext.path, q}, disk, disk')
               /\ disk'[PlannedNext.path] = PlannedNext.content
      [] OTHER -> disk' = disk /\ pc' = "returned"

\* C26: in prompt mode, a pass about an existing file shows no quick pick
\* once Overwrite All, Skip All or Backup All was answered, and handles the
\* file with that strategy; until then every such pass shows the quick
\* pick, and its answer decides how that file is handled.
C26_AllAnswersStick ==
    [][(pc = "writeMockFiles" /\ options.conflict = Given(Conflict.prompt)
        /\ fileExists(disk, PlannedNext.path)) =>
          IF AnsweredAll # {}
          THEN prompts' = prompts /\ \A a \in AnsweredAll : HandledAs(a)
          ELSE /\ Len(prompts') = Len(prompts) + 1
               /\ prompts'[Len(prompts')].path = PlannedNext.path
               /\ HandledAs(prompts'[Len(prompts')].action)]_vars

\* Skip All was answered for a.get.ts, and b.get.ts, which exists, was
\* passed without a quick pick and left as it was
C26_Witness ==
    /\ pc = "returned"
    /\ options.conflict = Given(Conflict.prompt)
    /\ Len(plan) = 2 /\ index = 2
    /\ prompts = <<[path |-> FilePath("a.get.ts"), action |-> Pick.skipAll]>>
    /\ plan[2].path = FilePath("b.get.ts")
    /\ disk = (FilePath("a.get.ts") :> "old") @@ (FilePath("b.get.ts") :> "old")

(***************************************************************************)
(* The runner under the commands of the user, the events of its child      *)
(* processes and the ensureMock messages of the preview panels.            *)
(***************************************************************************)
RunnerInit ==
    /\ fileExt = "ts" /\ source = NoSource /\ tsLoads = TRUE /\ jsonParses = FALSE
    /\ preview = NoPreview /\ paramValues = <<>> /\ node = NoNode /\ env = EmptyEnv
    /\ index = 0 /\ schemas = <<>> /\ warnings = <<>> /\ files = <<>>
    /\ result = NotGiven
    /\ ExporterIdle /\ PlanIdle /\ WriterIdle /\ PreviewIdle
    /\ RunnerIdle
    /\ pc = "activated"

RunnerFrame ==
    UNCHANGED <<pc, scanVars, result, options, heap, route, entry, filePath, writerVars,
                previewVars>>

\* the runner is left as a call returned it, and the listeners have run
\* if the emitter fired
Updated(runner) ==
    /\ processes' = runner.processes
    /\ children' = runner.children
    /\ LET Heard(after) == requests' = after.requests /\ replies' = after.replies
       IN  IF runner.fired THEN Heard(Listeners(runner.processes, requests, replies, 1))
           ELSE UNCHANGED <<requests, replies>>

StartedByCommand == {i \in 1..Len(children) : children[i].by = "command"}

\* Mokup: Start Mock
Start ==
    /\ Cardinality(StartedByCommand) < MaxStarts
    /\ \E packageRoot \in PackageRoots :
           /\ ~isRunning(processes, packageRoot)
           /\ Updated(start(processes, children, packageRoot, "command"))
    /\ RunnerFrame

\* Mokup: Stop Mock
Stop ==
    /\ \E packageRoot \in DOMAIN processes :
           Updated(stop(processes, children, packageRoot))
    /\ RunnerFrame

\* Mokup: Stop All
StopAll ==
    /\ DOMAIN processes # {}
    /\ Updated(stopAll(processes, children))
    /\ RunnerFrame

\* a child exits, by itself or after kill(), and its exit event is handled
Exit ==
    /\ \E proc \in 1..Len(children) :
           /\ children[proc].state # "exited"
           /\ Updated(onExit(processes, children, proc))
    /\ RunnerFrame

\* a child that has not exited writes a line with its port
Data ==
    /\ \E proc \in 1..Len(children) :
           /\ children[proc].state # "exited"
           /\ detectPort(processes, children, children[proc].packageRoot,
                         AnnouncedBy(proc)).fired
           /\ Updated(detectPort(processes, children, children[proc].packageRoot,
                                 AnnouncedBy(proc)))
    /\ RunnerFrame

\* a panel posts ensureMock: the handler replies at once, or goes on to
\* resolve the command and check the CLI version
EnsureMock ==
    /\ Len(requests) < MaxRequests
    /\ \E entryRoot \in {NotGiven} \cup {Given(r) : r \in PackageRoots} :
           LET request == Len(requests) + 1
           IN  IF entryRoot = NotGiven
               THEN /\ requests' = Append(requests, [packageRoot |-> entryRoot,
                                                     step |-> "done"])
                    /\ replies' = Append(replies,
                                         Failed(request, "Entry or runner unavailable"))
               ELSE IF resolveBaseUrl(entryRoot, processes) # NotGiven
               THEN /\ requests' = Append(requests, [packageRoot |-> entryRoot,
                                                     step |-> "done"])
                    /\ replies' = Append(replies,
                                         Ok(request, resolveBaseUrl(entryRoot, processes)[1]))
               ELSE /\ requests' = Append(requests, [packageRoot |-> entryRoot,
                                                     step |-> "checking"])
                    /\ UNCHANGED replies
    /\ UNCHANGED <<processes, children>>
    /\ RunnerFrame

\* the handler goes on: runner.start(entry, ...), then waitForPort, which
\* resolves at once when the port is known and waits otherwise
StartAndWait ==
    /\ \E request \in 1..Len(requests) :
           /\ requests[request].step = "checking"
           /\ LET Started(runner) ==
                      LET Heard(after) ==
                              IF KnownPort(runner.processes,
                                           requests[request].packageRoot[1]) # NotGiven
                              THEN /\ requests' = [after.requests EXCEPT
                                                       ![request].step = "done"]
                                   /\ replies' =
                                          Append(after.replies,
                                                 Ok(request,
                                                    BaseUrl(KnownPort(
                                                        runner.processes,
                                                        requests[request].packageRoot[1])[1])))
                              ELSE /\ requests' = [after.requests EXCEPT
                                                       ![request].step = "waiting"]
                                   /\ replies' = after.replies
                      IN  /\ processes' = runner.processes
                          /\ children' = runner.children
                          /\ Heard(IF runner.fired
                                   THEN Listeners(runner.processes, requests, replies, 1)
                                   ELSE [requests |-> requests, replies |-> replies])
              IN  Started(start(processes, children, requests[request].packageRoot[1],
                                "ensureMock"))
    /\ RunnerFrame

\* the timer of a waiting handler expires
Timeout ==
    /\ \E request \in 1..Len(requests) :
           /\ requests[request].step = "waiting"
           /\ LET Expired(after) == requests' = after.requests /\ replies' = after.replies
              IN  Expired(TimedOut(requests, replies, request))
    /\ UNCHANGED <<processes, children>>
    /\ RunnerFrame

RunnerNext ==
    Start \/ Stop \/ StopAll \/ Exit \/ Data \/ EnsureMock \/ StartAndWait \/ Timeout

RunnerSpec == RunnerInit /\ [][RunnerNext]_vars

(***************************************************************************)
(* Properties of the runner (C23, C24)                                     *)
(***************************************************************************)
\* the child was spawned, not killed, and has not exited
Alive(i) == children[i].state = "running"

\* C23: after any interleaving of starts, stops and exit events, the
\* runner tracks for each package root exactly the child that is alive:
\* every record holds a live child of its package root, and every live
\* child is the one its package root's record holds, so that no live child
\* is untracked and no two live children share a package root.
C23_TracksLiveProcesses ==
    /\ \A r \in DOMAIN processes :
           Alive(processes[r].proc) /\ children[processes[r].proc].packageRoot = r
    /\ \A i \in 1..Len(children) :
           Alive(i) => /\ isRunning(processes, children[i].packageRoot)
                       /\ processes[children[i].packageRoot].proc = i

\* The timer of waitForPort fires once its delay has passed, and the
\* handler's awaits (resolving the command, the CLI version check) settle:
\* neither step can be put off for ever.
LiveRunnerSpec == RunnerSpec /\ WF_vars(StartAndWait) /\ WF_vars(Timeout)

\* the replies posted for a request
RepliesTo(i) == {k \in 1..Len(replies) : replies[k].to = i}
\* a reply is ok with the base URL of a port that a child of the request's
\* package root announced, or a failure: for want of an entry or a runner,
\* or because the time ran out
WellFormedReply(k) ==
    LET request == requests[replies[k].to]
    IN  IF replies[k].ok
        THEN /\ request.packageRoot # NotGiven
             /\ \E i \in 1..Len(children) :
                    /\ children[i].packageRoot = request.packageRoot[1]
                    /\ replies[k].baseUrl = BaseUrl(AnnouncedBy(i))
        ELSE replies[k].error =
                 IF request.packageRoot = NotGiven THEN "Entry or runner unavailable"
                 ELSE "Mock startup timed out"

PreviewInit ==
    /\ fileExt = "ts" /\ source = NoSource /\ tsLoads = TRUE /\ jsonParses = FALSE
    /\ preview = NoPreview /\ paramValues = <<>> /\ node = NoNode /\ env = EmptyEnv
    /\ index = 0 /\ schemas = <<>> /\ warnings = <<>> /\ files = <<>>
    /\ result = NotGiven
    /\ ExporterIdle /\ PlanIdle /\ WriterIdle /\ RunnerIdle
    /\ lastRequestId = <<>>
    /\ sending = FALSE
    /\ response = EmptyResponse
    /\ clock = 1
    /\ sent = <<>>
    /\ pc = "mounted"

PreviewFrame ==
    UNCHANGED <<pc, scanVars, result, options, heap, route, entry, filePath, writerVars,
                runnerVars>>

Shown(view) ==
    /\ lastRequestId' = view.lastRequestId
    /\ sending' = view.sending
    /\ response' = view.response

\* time passes
Tick ==
    /\ clock < MaxClock
    /\ clock' = clock + 1
    /\ UNCHANGED <<lastRequestId, sending, response, sent>>
    /\ PreviewFrame

\* a click on the send button, which is disabled while sending
Send ==
    /\ ~sending
    /\ Len(sent) < MaxSends
    /\ \E parses \in BOOLEAN :
           /\ Shown(performRequest(View(lastRequestId, sending, response), parses,
                                   <<clock>>))
           /\ sent' = IF parses THEN Append(sent, [id |-> <<clock>>, answered |-> FALSE])
                      ELSE sent
    /\ UNCHANGED clock
    /\ PreviewFrame

\* the webview is loaded again
Reload ==
    /\ sent # <<>>
    /\ Shown(View(<<>>, FALSE, EmptyResponse))
    /\ UNCHANGED <<clock, sent>>
    /\ PreviewFrame

\* the response to one of the requests arrives
HandleResponse ==
    /\ \E i \in 1..Len(sent) :
           /\ ~sent[i].answered
           /\ \E answer \in ResponsesTo(sent[i].id) :
                  /\ Shown(handleResponse(View(lastRequestId, sending, response), answer))
                  /\ sent' = [sent EXCEPT ![i] = [id |-> @.id, answered |-> TRUE,
                                                  answer |-> answer]]
    /\ UNCHANGED clock
    /\ PreviewFrame

PreviewNext == Tick \/ Send \/ Reload \/ HandleResponse

PreviewSpec == PreviewInit /\ [][PreviewNext]_vars

(***************************************************************************)
(* Property of the preview webview (C25)                                   *)
(***************************************************************************)
\* the requests answered by the step being taken
JustAnswered == {i \in 1..Len(sent) : ~sent[i].answered /\ sent'[i].answered}

\* C25: a response whose id is not the id of the last request sent changes
\* no response field and does not enable the send button again; a
\* response with that id ends the sending.
C25_OnlyLastRequestShown ==
    [][\A i \in JustAnswered :
           IF sent[i].id # lastRequestId
           THEN response' = response /\ sending' = sending
           ELSE ~sending' /\ response'.status # <<"SENDING">>]_vars

\* the response to the first request arrived after the second was sent,
\* and the webview still shows the second as being sent
C25_Witness ==
    /\ Len(sent) = 2
    /\ sent[1].answered /\ ~sent[2].answered
    /\ sent[1].id # sent[2].id
    /\ lastRequestId = sent[2].id
    /\ sending
    /\ response.status = <<"SENDING">>
=============================================================================
